---------------------------- MODULE Spec2Model ----------------------------
(***************************************************************************)
(* Resolution / caching / orchestration engine of german-vocab-bot:        *)
(*   src/src/api/dictionaries.js        quota tracker, provider adapters   *)
(*   src/src/services/vocabularyCache.js  two-tier cache                   *)
(*   src/unnamed/part_004 (vocabularyManager.js)  orchestrator, batches    *)
(*   src/src/services/aiEnrichment.js, wordAnalyzer.js  LLM enrichment and *)
(*   the rule-based fallback                                               *)
(*                                                                         *)
(* Time is a counter of ticks (now).  Node's event loop is cooperative:    *)
(* every action below is one uninterrupted synchronous span of the code,   *)
(* from one await to the next.                                             *)
(***************************************************************************)
EXTENDS Integers, Sequences, FiniteSets, TLC

VARIABLES
    now,            \* the clock: new Date() / Date.now(), in ticks
    quotaManager,   \* DictionaryAPIs.quotaManager: api -> [used, limit, resetDate]
    apiKey,         \* api -> whether this.<api>ApiKey is configured
    callers,        \* direct callers of searchPONS / searchLinguatools
    lastHas,        \* the most recent hasQuotaAvailable call (observation)
    memoryCache,    \* VocabularyCache.memoryCache: a Map, in insertion order
    dbCache,        \* table vocabulary_cache: key -> row, or NoRow
    pendingDel,     \* removeFromDbCache calls issued and not yet executed
    booted,         \* VocabularyCache.initialize has run
    readers,        \* searchWord calls in flight
    lastRead,       \* the most recent searchWord call that returned (observation)
    written,        \* key -> the most recent saveToDbCache (observation)
    memLog,         \* inserts, evictions and hits of the memory tier since it was empty (observation)
    batch,          \* the batchEnrichVocabulary call: its locals and what it issued
    sw,             \* the searchWithFallback call: its locals and what it tried
    store,          \* table vocabulary: the rows of the word store
    sv,             \* the searchVocabulary call: its locals and what it returned
    en,             \* the enrichment call: its locals and its outcome
    mgr,            \* VocabularyManager.isInitialized and the initialize calls in flight
    quiz,           \* the getQuizVocabulary call: its arguments, locals and what it returned
    sc,             \* the scorer applied to a pair of candidates: input and output
    sweep,          \* the most recent cleanupExpiredCache call (observation)
    imp             \* the importToDatabase call: its item and the row it found

quotaVars == <<quotaManager, apiKey, callers, lastHas>>
cacheVars == <<memoryCache, dbCache, pendingDel, booted, readers, lastRead, written, memLog>>
vocabVars == <<store, sv, en, mgr, quiz>>
toolVars == <<sc, sweep, imp>>
nonQuotaVars == <<cacheVars, batch, toolVars, sw, vocabVars>>
nonCacheVars == <<quotaVars, batch, toolVars, sw, vocabVars>>
nonBatchVars == <<now, quotaVars, cacheVars, toolVars, sw, vocabVars>>
vars == <<now, quotaVars, cacheVars, batch, toolVars, sw, vocabVars>>

-----------------------------------------------------------------------------
(* Bounds of the model *)

\* the last tick of the clock
MaxTime == 5
\* ticks in one quota period (a calendar month)
MonthLen == 3
\* stands for the quota limit of a provider (1000 in the source)
QuotaLimit == 2
\* number of request slots that may call a provider concurrently
Concurrency == 2
\* stands for cacheExpiry (24 hours in the source), in ticks
CacheExpiry == 2
\* stands for maxMemoryCache (500 in the source)
MaxMemoryCache == 2
\* stands for the LIMIT of the startup preload (100 in the source)
PreloadLimit == 1
\* access_count values above this are not explored
MaxAccess == 3
\* the longest word list given to batchEnrichVocabulary
MaxWords == 25

Min(a, b) == IF a < b THEN a ELSE b

Apis == {"pons", "linguatools"}
Reqs == 1..Concurrency

-----------------------------------------------------------------------------
(* Quota tracker: dictionaries.js *)

\* new Date(now.getFullYear(), now.getMonth(), 1): first instant of the
\* month holding t
ThisMonthStart(t) == (t \div MonthLen) * MonthLen

\* new Date(now.getFullYear(), now.getMonth() + 1, 1): first instant of the
\* month after the one holding t
NextMonthStart(t) == ((t \div MonthLen) + 1) * MonthLen

\* constructor: this.quotaManager
InitialQuota(t) == [used |-> 0, limit |-> QuotaLimit, resetDate |-> NextMonthStart(t)]

\* the lazy reset at the head of hasQuotaAvailable
ResetIfDueStale(q, t) ==
    IF t >= q.resetDate THEN [q EXCEPT !.resetDate = NextMonthStart(t)] ELSE q

ResetIfDue(q, t) ==
    IF t >= q.resetDate
    THEN [q EXCEPT !.used = 0, !.resetDate = NextMonthStart(t)]
    ELSE q

\* return quota.used < quota.limit
BelowLimitInclusive(q) == q.used <= q.limit

BelowLimit(q) == q.used < q.limit

\* hasQuotaAvailable(api) called at time t on quota state qm: the returned
\* boolean and the quota state it leaves
HasQuotaAvailable(qm, api, t) ==
    LET q == ResetIfDue(qm[api], t)
    IN  [ret |-> BelowLimit(q), qm |-> [qm EXCEPT ![api] = q]]

IncrementQuotaUsageTwice(qm, api) == [qm EXCEPT ![api].used = @ + 2]

\* incrementQuotaUsage(api)
IncrementQuotaUsage(qm, api) == [qm EXCEPT ![api].used = @ + 1]

\* what a hasQuotaAvailable call leaves in lastHas
HasObs(qm, api, t) ==
    LET r == HasQuotaAvailable(qm, api, t)
    IN  [api |-> api, ret |-> r.ret,
         usedBefore |-> qm[api].used,
         due |-> (t >= qm[api].resetDate),
         usedAfter |-> r.qm[api].used]

NoObs == [api |-> "none", ret |-> FALSE, usedBefore |-> 0, due |-> FALSE, usedAfter |-> 0]

-----------------------------------------------------------------------------
(* Provider adapters called directly: searchPONS / searchLinguatools *)

\* changed: the hasQuotaAvailable of the caller's latest call reset a counter
\* that was above 0 (observation)
IdleCaller == [pc |-> "idle", last |-> "none", changed |-> FALSE]

\* searchPONS / searchLinguatools up to the await of axios.get
SearchStart(r, api) ==
    /\ callers[r].pc = "idle"
    /\ IF ~apiKey[api]
       THEN \* throw new Error('... API key not configured')
            /\ callers' = [callers EXCEPT ![r] = [pc |-> "idle", last |-> "config_error",
                                                  changed |-> FALSE]]
            /\ UNCHANGED <<quotaManager, lastHas>>
       ELSE LET r0 == HasQuotaAvailable(quotaManager, api, now)
                ch == r0.qm[api].used # quotaManager[api].used
            IN  /\ quotaManager' = r0.qm
                /\ lastHas' = HasObs(quotaManager, api, now)
                /\ IF ~r0.ret
                   THEN \* throw new Error('... API quota exceeded')
                        callers' = [callers EXCEPT ![r] = [pc |-> "idle", last |-> "quota_error",
                                                           changed |-> ch]]
                   ELSE callers' = [callers EXCEPT ![r] = [pc |-> api, last |-> "none",
                                                           changed |-> ch]]
    /\ UNCHANGED <<now, apiKey, nonQuotaVars>>

SearchPONSStart(r) == SearchStart(r, "pons")
SearchLinguatoolsStart(r) == SearchStart(r, "linguatools")

\* axios.get resolved: incrementQuotaUsage, then the parsed reply is returned
SearchReply(r) ==
    /\ callers[r].pc \in Apis
    /\ quotaManager' = IncrementQuotaUsage(quotaManager, callers[r].pc)
    /\ callers' = [callers EXCEPT ![r] = [pc |-> "idle", last |-> "ok",
                                          changed |-> callers[r].changed]]
    /\ UNCHANGED <<now, apiKey, lastHas, nonQuotaVars>>

\* axios.get rejected (timeout, network, status): logged and rethrown
SearchFail(r) ==
    /\ callers[r].pc \in Apis
    /\ callers' = [callers EXCEPT ![r] = [pc |-> "idle", last |-> "net_error",
                                          changed |-> callers[r].changed]]
    /\ UNCHANGED <<now, apiKey, quotaManager, lastHas, nonQuotaVars>>

\* the quota tracker as constructed, no credential configured
QuotaIdle ==
    /\ quotaManager = [a \in Apis |-> InitialQuota(0)]
    /\ apiKey = [a \in Apis |-> FALSE]
    /\ callers = [r \in Reqs |-> IdleCaller]
    /\ lastHas = NoObs

\* hasQuotaAvailable called on its own
HasQuotaCall(api) ==
    /\ quotaManager' = HasQuotaAvailable(quotaManager, api, now).qm
    /\ lastHas' = HasObs(quotaManager, api, now)
    /\ UNCHANGED <<now, apiKey, callers, nonQuotaVars>>

\* the clock advances
\* a rejected promise of a provider adapter
Rejected == [ok |-> FALSE, value |-> <<>>]

\* no searchWithFallback call in progress
SwIdle ==
    [pc |-> "idle", results |-> <<>>, settle |-> Rejected,
     hadQuota |-> [a \in Apis |-> FALSE], tried |-> <<>>, called |-> <<>>,
     got |-> [a \in Apis |-> <<>>]]

\* no searchVocabulary call in progress
SvIdle ==
    [pc |-> "idle", word |-> 0, found |-> FALSE, results |-> <<>>, outcome |-> "none",
     returned |-> <<>>, failed |-> FALSE]

\* no enrichment call in progress, in a process whose environment holds the
\* credentials keys and LLM_PROVIDER def
EnFresh(keys, def) ==
    [keys |-> keys, def |-> def, pc |-> "idle", op |-> "none", word |-> 0, cur |-> "none",
     queue |-> <<>>, tried |-> <<>>, asked |-> <<>>, results |-> <<>>, exhausted |-> FALSE,
     outcome |-> "none", record |-> [producer |-> "none"], timedOut |-> FALSE]
EnIdle == EnFresh({}, "ollama")

\* no getQuizVocabulary call made; "none" stands for a null level or category
NoFilter == "none"

QuizIdle ==
    [pc |-> "idle", count |-> 0, level |-> NoFilter, category |-> NoFilter,
     dbWords |-> <<>>, cachedWords |-> <<>>, queue |-> <<>>,
     outcome |-> "none", returned |-> <<>>]

\* the callers of VocabularyManager.initialize
InitCallers == {"c1", "c2"}

\* the manager as constructed: isInitialized = false, no initialize call made;
\* connects, preloads and schemas count the setup steps carried out (observation)
MgrIdle ==
    [isInitialized |-> FALSE, pc |-> [c \in InitCallers |-> "idle"],
     connects |-> 0, preloads |-> 0, schemas |-> 0]

\* the word store and the manager before any call
VocabIdle ==
    /\ store = {}
    /\ sv = SvIdle
    /\ en = EnIdle
    /\ mgr = MgrIdle
    /\ quiz = QuizIdle

\* the scorer, the sweep and the importer before any call
ScIdle == [pc |-> "idle"]
NoSweep == [pc |-> "idle", initialized |-> FALSE, at |-> 0, cutoff |-> <<>>, before |-> <<>>, removed |-> {}, changes |-> 0]
NoItem == [word |-> 0, confidence |-> 0]
ImpIdle == [pc |-> "idle", queue |-> <<>>, item |-> NoItem, existing |-> NoItem, last |-> "none",
            imported |-> 0, updated |-> 0, errors |-> 0]
ToolsIdle ==
    /\ sc = ScIdle
    /\ sweep = NoSweep
    /\ imp = ImpIdle

Tick ==
    /\ now < MaxTime
    /\ now' = now + 1
    /\ UNCHANGED <<quotaVars, cacheVars, batch, toolVars, sw, vocabVars>>


-----------------------------------------------------------------------------
(* Cache manager: vocabularyCache.js *)

\* cache keys (word, languagePair); the memory tier holds one more key than
\* it has room for
Keys == 1..(MaxMemoryCache + 1)
\* the keys written and read while the clock runs
TimedKeys == {1}
\* parsed results a provider once gave for a key
Data == {"v1", "v2"}
Readers == {"r1", "r2"}
\* the reader followed while the clock runs
TimedReaders == {"r1"}

NoRow == [parsed_data |-> <<>>, createdAt |-> 0, accessedAt |-> 0, accessCount |-> 0]
Miss == "miss"
NoWrite == [data |-> "none", at |-> 0]
NoRead == [key |-> 0, res |-> "none", t |-> 0, atomic |-> FALSE, w |-> NoWrite]
IdleReader == [pc |-> "idle", key |-> 0, t0 |-> 0, data |-> "none"]
EmptyLog == [ins |-> <<>>, ev |-> <<>>, hits |-> {}, clean |-> TRUE]

\* JSON.stringify(data) as stored in column parsed_data, and JSON.parse of it
JsonStringify(d) == <<"json", d>>
JsonParse(txt) == txt[2]

\* Map.has / Map.get / Map.delete / Map.set on the insertion-ordered Map
MapHas(m, k) == \E i \in 1..Len(m) : m[i].key = k
MapGet(m, k) == m[CHOOSE i \in 1..Len(m) : m[i].key = k]
MapDelete(m, k) == SelectSeq(m, LAMBDA e : e.key # k)
MapSet(m, k, d, t) ==
    LET e == [key |-> k, data |-> d, timestamp |-> t]
    IN  IF MapHas(m, k)
        THEN [i \in 1..Len(m) |-> IF m[i].key = k THEN e ELSE m[i]]
        ELSE Append(m, e)

\* Date.now() - cached.timestamp < this.cacheExpiry
MemoryFresh(ts, t) == t - ts < CacheExpiry

DbExpiredNever(createdAt, t) == FALSE

\* Date.now() - createdAt.getTime() > this.cacheExpiry
DbExpired(createdAt, t) == t - createdAt > CacheExpiry

NewestKey(m) == m[Len(m)].key

\* this.memoryCache.keys().next().value
OldestKey(m) == m[1].key

\* addToMemoryCache: the eviction, then the set
IsFull(m) == Len(m) >= MaxMemoryCache
EvictIfFull(m) == IF IsFull(m) THEN MapDelete(m, OldestKey(m)) ELSE m
AddToMemoryCache(m, k, d, t) == MapSet(EvictIfFull(m), k, d, t)

\* the log of the memory tier after addToMemoryCache(k) on m
LogAdd(log, m, k) ==
    IF Len(log.ins) > MaxMemoryCache
    THEN [log EXCEPT !.clean = FALSE]
    ELSE [log EXCEPT !.ins = Append(log.ins, k),
                     !.ev = IF IsFull(m) THEN Append(log.ev, OldestKey(m)) ELSE log.ev]
\* the log after an entry was deleted because it had expired
LogDelete(log, m2) == IF m2 = <<>> THEN EmptyLog ELSE [log EXCEPT !.clean = FALSE]

\* searchWord up to its first await: the memory tier, then getFromDbCache is issued
SearchWordStep(r, k) ==
    /\ booted
    /\ readers[r].pc = "idle"
    /\ IF MapHas(memoryCache, k) /\ MemoryFresh(MapGet(memoryCache, k).timestamp, now)
       THEN \* memory cache hit: return cached.data
            /\ lastRead' = [key |-> k, res |-> MapGet(memoryCache, k).data, t |-> now,
                            atomic |-> TRUE, w |-> written[k]]
            /\ memLog' = [memLog EXCEPT !.hits = @ \cup {k}]
            /\ UNCHANGED <<memoryCache, readers>>
       ELSE /\ memoryCache' = MapDelete(memoryCache, k)
            /\ memLog' = IF MapHas(memoryCache, k)
                         THEN LogDelete(memLog, MapDelete(memoryCache, k)) ELSE memLog
            /\ readers' = [readers EXCEPT ![r] = [pc |-> "dbGet", key |-> k, t0 |-> now, data |-> "none"]]
            /\ UNCHANGED lastRead
    /\ UNCHANGED <<now, dbCache, pendingDel, booted, written>>

SearchWordStart(r, k) == SearchWordStep(r, k) /\ UNCHANGED nonCacheVars

\* the callback of getFromDbCache, and searchWord up to its next await
DbGetStep(r) ==
    LET k == readers[r].key
        row == dbCache[k]
    IN  /\ readers[r].pc = "dbGet"
        /\ IF row = NoRow \/ DbExpired(row.createdAt, now)
           THEN \* resolve(null); searchWord returns []
                /\ pendingDel' = IF row # NoRow THEN pendingDel \cup {k} ELSE pendingDel
                /\ lastRead' = [key |-> k, res |-> Miss, t |-> now,
                                atomic |-> (readers[r].t0 = now), w |-> written[k]]
                /\ readers' = [readers EXCEPT ![r] = IdleReader]
           ELSE \* resolve(JSON.parse(row.parsed_data)); updateCacheAccess is issued
                /\ readers' = [readers EXCEPT ![r].pc = "updAccess",
                                              ![r].data = JsonParse(row.parsed_data)]
                /\ UNCHANGED <<pendingDel, lastRead>>
        /\ UNCHANGED <<now, memoryCache, dbCache, booted, written, memLog>>

DbGetDone(r) == DbGetStep(r) /\ UNCHANGED nonCacheVars

\* UPDATE vocabulary_cache SET accessed_at = CURRENT_TIMESTAMP, access_count = access_count + 1
UpdateCacheAccess(row, t) ==
    IF row = NoRow THEN row
    ELSE [row EXCEPT !.accessedAt = t, !.accessCount = @ + 1]

\* the callback of updateCacheAccess, then addToMemoryCache and the return
UpdateAccessStep(r) ==
    LET k == readers[r].key
        d == readers[r].data
    IN  /\ readers[r].pc = "updAccess"
        /\ dbCache[k].accessCount < MaxAccess
        /\ dbCache' = [dbCache EXCEPT ![k] = UpdateCacheAccess(@, now)]
        /\ memoryCache' = AddToMemoryCache(memoryCache, k, d, now)
        /\ memLog' = LogAdd(memLog, memoryCache, k)
        /\ lastRead' = [key |-> k, res |-> d, t |-> now,
                        atomic |-> (readers[r].t0 = now), w |-> written[k]]
        /\ readers' = [readers EXCEPT ![r] = IdleReader]
        /\ UNCHANGED <<now, pendingDel, booted, written>>

UpdateAccessDone(r) == UpdateAccessStep(r) /\ UNCHANGED nonCacheVars

\* the DELETE of a removeFromDbCache that getFromDbCache issued and did not await
RemoveFromDbCacheDone(k) ==
    /\ k \in pendingDel
    /\ pendingDel' = pendingDel \ {k}
    /\ dbCache' = [dbCache EXCEPT ![k] = NoRow]
    /\ UNCHANGED <<now, memoryCache, booted, readers, lastRead, written, memLog, nonCacheVars>>

\* saveToDbCache: INSERT OR REPLACE ... CURRENT_TIMESTAMP, CURRENT_TIMESTAMP, 1
NewRow(d, t) == [parsed_data |-> JsonStringify(d), createdAt |-> t, accessedAt |-> t, accessCount |-> 1]

SaveToDbCache(k, d) ==
    /\ booted
    /\ dbCache' = [dbCache EXCEPT ![k] = NewRow(d, now)]
    /\ written' = [written EXCEPT ![k] = [data |-> d, at |-> now]]
    /\ UNCHANGED <<now, memoryCache, pendingDel, booted, readers, lastRead, memLog, nonCacheVars>>

\* rows.forEach(row => addToMemoryCache(...)) over the rows of the preload query
RECURSIVE AddAll(_, _, _, _)
AddAll(m, db, order, t) ==
    IF order = <<>> THEN m
    ELSE AddAll(AddToMemoryCache(m, Head(order), JsonParse(db[Head(order)].parsed_data), t),
                db, Tail(order), t)

RECURSIVE LogAll(_, _, _, _, _)
LogAll(log, m, db, order, t) ==
    IF order = <<>> THEN log
    ELSE LogAll(LogAdd(log, m, Head(order)),
                AddToMemoryCache(m, Head(order), JsonParse(db[Head(order)].parsed_data), t),
                db, Tail(order), t)

\* SELECT ... ORDER BY access_count DESC LIMIT 100: the orders SQLite may give
PreloadOrders(db) ==
    LET rows == {k \in Keys : db[k] # NoRow}
        n == IF Cardinality(rows) < PreloadLimit THEN Cardinality(rows) ELSE PreloadLimit
    IN  {o \in [1..n -> rows] :
            /\ \A i, j \in 1..n : i < j =>
                  (o[i] # o[j] /\ db[o[i]].accessCount >= db[o[j]].accessCount)
            /\ \A k \in rows : (\A i \in 1..n : o[i] # k) =>
                  (\A i \in 1..n : db[o[i]].accessCount >= db[k].accessCount)}

\* initialize: loadFrequentWordsToMemory
LoadFrequentWordsToMemory ==
    /\ ~booted
    /\ booted' = TRUE
    /\ \E o \in PreloadOrders(dbCache) :
          /\ memoryCache' = AddAll(memoryCache, dbCache, o, now)
          /\ memLog' = LogAll(memLog, memoryCache, dbCache, o, now)
    /\ UNCHANGED <<now, dbCache, pendingDel, readers, lastRead, written, nonCacheVars>>

\* the cache before the process has read any word
CacheIdle ==
    /\ memoryCache = <<>>
    /\ dbCache = [k \in Keys |-> NoRow]
    /\ pendingDel = {}
    /\ booted = FALSE
    /\ readers = [r \in Readers |-> IdleReader]
    /\ lastRead = NoRead
    /\ written = [k \in Keys |-> NoWrite]
    /\ memLog = EmptyLog


-----------------------------------------------------------------------------
(* Batch enrichment: VocabularyManager.batchEnrichVocabulary (part_004) *)

\* const batchSize = 10
BatchSize == 10

Pending == [status |-> "pending"]

\* what cache.searchWord does for a word inside enrichVocabulary: "hit" (it
\* returns results), "miss" (it returns []), "throw" (the database rejects)
Fates == {"hit", "miss", "throw"}
FatePatterns ==
    { [w \in 1..(MaxWords + 1) |-> "hit"],
      [w \in 1..(MaxWords + 1) |-> "miss"],
      [w \in 1..(MaxWords + 1) |-> IF w % 3 = 0 THEN "throw" ELSE IF w % 3 = 1 THEN "hit" ELSE "miss"] }

\* enrichVocabulary(word): the value its promise is fulfilled with; every
\* path returns, the catch included.  `of` is the position of the call in
\* the input list (observation)
EnrichVocabulary(word, fate, pos) ==
    CASE fate = "hit"  -> [status |-> "fulfilled", success |-> TRUE, word |-> word,
                           error |-> "", of |-> pos]
      [] fate = "miss" -> [status |-> "fulfilled", success |-> FALSE, word |-> word,
                           error |-> "No results found", of |-> pos]
      [] OTHER         -> [status |-> "fulfilled", success |-> FALSE, word |-> word,
                           error |-> "error.message", of |-> pos]

\* words.slice(i, i + batchSize), i counted from 0
Slice(ws, i) == SubSeq(ws, i + 1, Min(i + BatchSize, Len(ws)))

\* the element pushed for one settled promise
SettledToResult(p, word, pos) ==
    IF p.status = "fulfilled"
    THEN [success |-> p.success, word |-> p.word, error |-> p.error, of |-> p.of]
    ELSE [success |-> FALSE, word |-> word, error |-> "Unknown error", of |-> pos]

Reverse(q) == [j \in 1..Len(q) |-> q[Len(q) + 1 - j]]

PushBatchResultsReversed(results, settled, ws, i) ==
    results \o Reverse([j \in 1..Len(settled) |-> SettledToResult(settled[j], ws[i + j], i + j)])

PushBatchResultsSuccessOnly(results, settled, ws, i) ==
    results \o SelectSeq([j \in 1..Len(settled) |-> SettledToResult(settled[j], ws[i + j], i + j)],
                         LAMBDA e : e.success)

\* batchResults.forEach((result, index) => results.push(...))
PushBatchResults(results, settled, ws, i) ==
    results \o [j \in 1..Len(settled) |-> SettledToResult(settled[j], ws[i + j], i + j)]

\* for (let i = 0; i < words.length; i += batchSize)
LoopContinues(i, n) == i < n

MoreBatchesAlways(i, n) == i < n

MoreBatchesNever(i, n) == FALSE

\* if (i + batchSize < words.length)
MoreBatches(i, n) == i + BatchSize < n

BatchIdle ==
    [pc |-> "idle", words |-> <<>>, fate |-> <<>>, i |-> 0, promises |-> <<>>,
     results |-> <<>>, batches |-> 0, delays |-> 0, dispatched |-> 0]

\* batch.map(word => this.enrichVocabulary(word)): every call of the batch
\* runs to its first await
Dispatch(b, i) ==
    [b EXCEPT !.pc = "awaitBatch", !.i = i,
              !.promises = [j \in 1..Len(Slice(b.words, i)) |-> Pending],
              !.batches = @ + 1,
              !.dispatched = @ + Len(Slice(b.words, i))]

\* batchEnrichVocabulary(words) up to its first await
BatchEnrichStart ==
    /\ batch.pc = "start"
    /\ batch' = IF LoopContinues(0, Len(batch.words)) THEN Dispatch(batch, 0)
                ELSE [batch EXCEPT !.pc = "done"]
    /\ UNCHANGED nonBatchVars

\* one enrichVocabulary call of the batch in flight settles
EnrichSettle(j) ==
    /\ batch.pc = "awaitBatch"
    /\ j \in 1..Len(batch.promises)
    /\ batch.promises[j] = Pending
    /\ LET pos == batch.i + j
           w == batch.words[pos]
       IN  batch' = [batch EXCEPT !.promises[j] = EnrichVocabulary(w, batch.fate[w], pos)]
    /\ UNCHANGED nonBatchVars

\* Promise.allSettled resolved: the results are pushed, then the delay is
\* issued or the loop ends and results is returned
BatchSettled ==
    /\ batch.pc = "awaitBatch"
    /\ \A j \in 1..Len(batch.promises) : batch.promises[j] # Pending
    /\ LET res == PushBatchResults(batch.results, batch.promises, batch.words, batch.i)
       IN  batch' = IF MoreBatches(batch.i, Len(batch.words))
                    THEN [batch EXCEPT !.results = res, !.promises = <<>>,
                                       !.pc = "delay", !.delays = @ + 1]
                    ELSE IF LoopContinues(batch.i + BatchSize, Len(batch.words))
                    THEN Dispatch([batch EXCEPT !.results = res], batch.i + BatchSize)
                    ELSE [batch EXCEPT !.results = res, !.promises = <<>>, !.pc = "done"]
    /\ UNCHANGED nonBatchVars

\* the timer of delay(1000) fired: i += batchSize, and the next batch, if any
DelayDone ==
    /\ batch.pc = "delay"
    /\ batch' = IF LoopContinues(batch.i + BatchSize, Len(batch.words))
                THEN Dispatch(batch, batch.i + BatchSize)
                ELSE [batch EXCEPT !.pc = "done"]
    /\ UNCHANGED nonBatchVars

InitBatch ==
    /\ now = 0
    /\ QuotaIdle
    /\ CacheIdle
    /\ \E n \in 0..MaxWords, f \in FatePatterns :
          batch = [BatchIdle EXCEPT !.pc = "start", !.words = [k \in 1..n |-> k], !.fate = f]
    /\ sw = SwIdle
    /\ VocabIdle
    /\ ToolsIdle

NextBatch ==
    \/ BatchEnrichStart
    \/ \E j \in 1..BatchSize : EnrichSettle(j)
    \/ BatchSettled
    \/ DelayDone

SpecBatch == InitBatch /\ [][NextBatch]_vars

\* the enrichVocabulary calls of the current batch that have not settled
InFlight(b) == Cardinality({j \in 1..Len(b.promises) : b.promises[j] = Pending})

\* C31: a step that dispatches enrichment calls dispatches one batch of at
\* most batchSize; unless it is the first batch, it is taken when the timer of
\* the inter-batch delay fires, after every call dispatched before has settled
\* and its result has been pushed; at most batchSize calls are in flight.
C31_NextBatchAfterSettleAndDelay ==
    [][/\ batch'.dispatched > batch.dispatched =>
            /\ batch'.dispatched - batch.dispatched <= BatchSize
            /\ InFlight(batch) = 0
            /\ Len(batch.results) = batch.dispatched
            /\ batch.dispatched > 0 => batch.pc = "delay"
       /\ InFlight(batch') <= BatchSize
      ]_vars

\* the second batch is in flight, all batchSize calls of it pending
C31_Witness ==
    /\ batch.batches = 2
    /\ batch.delays = 1
    /\ InFlight(batch) = BatchSize

CeilDiv(n, d) == (n + d - 1) \div d

\* C5: over n words, exactly ceil(n/10) batches are issued and exactly
\* max(0, ceil(n/10) - 1) inter-batch delays, none after the last batch.
C5_BatchAndDelayCount ==
    LET n == Len(batch.words)
    IN  /\ batch.pc = "done" =>
              /\ batch.batches = CeilDiv(n, BatchSize)
              /\ batch.delays = IF n = 0 THEN 0 ELSE CeilDiv(n, BatchSize) - 1
        /\ batch.pc = "delay" => Len(batch.results) < n

C5_Witness ==
    /\ batch.pc = "done"
    /\ Len(batch.words) = 25
    /\ batch.batches = 3
    /\ batch.delays = 2

\* C6: whatever the order in which the calls of a batch settle, the i-th
\* element of the output is the outcome of the call made for the i-th word.
C6_OutputInInputOrder ==
    batch.pc = "done" =>
        /\ Len(batch.results) = Len(batch.words)
        /\ \A k \in 1..Len(batch.results) :
              /\ batch.results[k].of = k
              /\ batch.results[k].word = batch.words[k]

C6_Witness ==
    /\ batch.pc = "awaitBatch"
    /\ batch.i = BatchSize
    /\ Len(batch.promises) >= 2
    /\ Len(batch.results) = BatchSize
    /\ batch.promises[1] = Pending
    /\ batch.promises[2] # Pending
    /\ \A k \in 1..Len(batch.results) : batch.results[k].of = k

\* C7: failed words do not stop the batch: every word is dispatched, and the
\* output holds exactly one outcome, success or error, per input word.
C7_OneOutcomePerWord ==
    batch.pc = "done" =>
        /\ batch.dispatched = Len(batch.words)
        /\ Len(batch.results) = Len(batch.words)
        /\ \A k \in 1..Len(batch.words) :
              batch.results[k].success = (batch.fate[batch.words[k]] = "hit")

C7_Witness ==
    /\ batch.pc = "done"
    /\ Len(batch.words) > BatchSize
    /\ ~batch.results[2].success
    /\ ~batch.results[3].success
    /\ \E k \in (BatchSize + 1)..Len(batch.results) : batch.results[k].success


-----------------------------------------------------------------------------
(* Provider fallback chain: DictionaryAPIs.searchWithFallback *)

\* response.data of a provider, as the list of its entries (PONS: the arabs;
\* Linguatools: the translations).  "good": a word and a translation are
\* extracted; "empty": no translation (target) in the entry; "bad": a field
\* the extraction calls a string method on is not a string
RawReplies ==
    { <<>>,
      <<[kind |-> "good", id |-> 1]>>,
      <<[kind |-> "empty", id |-> 1], [kind |-> "good", id |-> 2]>>,
      <<[kind |-> "empty", id |-> 1]>>,
      <<[kind |-> "good", id |-> 1], [kind |-> "bad", id |-> 2]>> }

\* keep the entries with a word and a translation
KeepGood(data) == SelectSeq(data, LAMBDA e : e.kind = "good")

\* parsePONSResponse / parseLinguatoolsResponse: the candidates, or the
\* TypeError of cleanText / extractArticle on a non-string
ParseResponse(data, api) ==
    IF \E j \in 1..Len(data) : data[j].kind = "bad"
    THEN Rejected
    ELSE [ok |-> TRUE,
          value |-> [j \in 1..Len(KeepGood(data)) |-> [source |-> api, id |-> KeepGood(data)[j].id]]]

LinguatoolsWantedAlways(hasQ, results) == hasQ

\* this.hasQuotaAvailable('linguatools') && results.length === 0
LinguatoolsWanted(hasQ, results) == hasQ /\ Len(results) = 0

\* searchPONS / searchLinguatools entered from searchWithFallback, which has
\* just seen quota: the credential check, the second quota check, the dispatch
EnterSearchUnchecked(s, api, settledPc, awaitPc) ==
    [s EXCEPT !.tried = Append(@, api), !.called = Append(@, api), !.pc = awaitPc]

EnterSearch(s, api, settledPc, awaitPc) ==
    IF ~apiKey[api]
    THEN [s EXCEPT !.tried = Append(@, api), !.pc = settledPc, !.settle = Rejected]
    ELSE [s EXCEPT !.tried = Append(@, api), !.called = Append(@, api), !.pc = awaitPc]

\* the second try block, from its quota check to the first await or the return
LinguaSection(s, qm) ==
    LET hq == HasQuotaAvailable(qm, "linguatools", now)
        s1 == [s EXCEPT !.hadQuota["linguatools"] = hq.ret]
    IN  [qm |-> hq.qm,
         sw |-> IF LinguatoolsWanted(hq.ret, s.results)
                THEN EnterSearch(s1, "linguatools", "linguaSettled", "awaitLingua")
                ELSE [s1 EXCEPT !.pc = "done"]]

\* searchWithFallback(word) up to its first await
SwStart ==
    /\ sw.pc \in {"idle", "done"}
    /\ LET hq == HasQuotaAvailable(quotaManager, "pons", now)
           s1 == [SwIdle EXCEPT !.hadQuota["pons"] = hq.ret]
       IN  IF hq.ret
           THEN /\ sw' = EnterSearch(s1, "pons", "ponsSettled", "awaitPons")
                /\ quotaManager' = hq.qm
           ELSE /\ sw' = LinguaSection(s1, hq.qm).sw
                /\ quotaManager' = LinguaSection(s1, hq.qm).qm
    /\ UNCHANGED <<now, apiKey, callers, lastHas, cacheVars, batch, toolVars, vocabVars>>

\* axios.get of the provider resolved: incrementQuotaUsage, then the parse
SwReply(api, awaitPc, settledPc, data) ==
    /\ sw.pc = awaitPc
    /\ quotaManager' = IncrementQuotaUsage(quotaManager, api)
    /\ sw' = [sw EXCEPT !.pc = settledPc, !.settle = ParseResponse(data, api)]
    /\ UNCHANGED <<now, apiKey, callers, lastHas, cacheVars, batch, toolVars, vocabVars>>

\* axios.get of the provider rejected: logged and rethrown by the adapter
SwFail(awaitPc, settledPc) ==
    /\ sw.pc = awaitPc
    /\ sw' = [sw EXCEPT !.pc = settledPc, !.settle = Rejected]
    /\ UNCHANGED <<now, quotaVars, cacheVars, batch, toolVars, vocabVars>>

PonsReply(data) == SwReply("pons", "awaitPons", "ponsSettled", data)
PonsFail == SwFail("awaitPons", "ponsSettled")
LinguatoolsReply(data) == SwReply("linguatools", "awaitLingua", "linguaSettled", data)
LinguatoolsFail == SwFail("awaitLingua", "linguaSettled")

\* results.push(...ponsResults), or the catch
Collect(s, api) ==
    IF s.settle.ok
    THEN [s EXCEPT !.results = @ \o s.settle.value, !.got[api] = s.settle.value]
    ELSE s

\* searchWithFallback resumes after searchPONS settled
AfterPons ==
    /\ sw.pc = "ponsSettled"
    /\ sw' = LinguaSection(Collect(sw, "pons"), quotaManager).sw
    /\ quotaManager' = LinguaSection(Collect(sw, "pons"), quotaManager).qm
    /\ UNCHANGED <<now, apiKey, callers, lastHas, cacheVars, batch, toolVars, vocabVars>>

\* searchWithFallback resumes after searchLinguatools settled, and returns
AfterLinguatools ==
    /\ sw.pc = "linguaSettled"
    /\ sw' = [Collect(sw, "linguatools") EXCEPT !.pc = "done"]
    /\ UNCHANGED <<now, quotaVars, cacheVars, batch, toolVars, vocabVars>>

InitFallback ==
    /\ now = 0
    /\ quotaManager = [a \in Apis |-> InitialQuota(0)]
    /\ apiKey \in [Apis -> BOOLEAN]
    /\ callers = [r \in Reqs |-> IdleCaller]
    /\ lastHas = NoObs
    /\ CacheIdle
    /\ batch = BatchIdle
    /\ sw = SwIdle
    /\ VocabIdle
    /\ ToolsIdle

NextFallback ==
    \/ SwStart
    \/ \E d \in RawReplies : PonsReply(d)
    \/ PonsFail
    \/ AfterPons
    \/ \E d \in RawReplies : LinguatoolsReply(d)
    \/ LinguatoolsFail
    \/ AfterLinguatools
    \/ Tick

SpecFallback == InitFallback /\ [][NextFallback]_vars

\* C24 as stated: whatever entries of a response are malformed, the adapter
\* resolves with the candidates of exactly the well-formed entries of that
\* response, in their order, and does not reject.
C24_MalformedRecordsDropped ==
    [][\A d \in RawReplies :
          (PonsReply(d) \/ LinguatoolsReply(d)) =>
              /\ sw'.settle.ok
              /\ Len(sw'.settle.value) = Len(KeepGood(d))
              /\ \A j \in 1..Len(KeepGood(d)) : sw'.settle.value[j].id = KeepGood(d)[j].id
      ]_vars

InOrder(q) == q \in {<<>>, <<"pons">>, <<"linguatools">>, <<"pons", "linguatools">>}
Has(q, x) == \E j \in 1..Len(q) : q[j] = x

\* C10 as stated: every provider that has quota is tried, PONS then
\* Linguatools, and the candidates of all that answer are returned.
C10_AllProvidersCollected ==
    sw.pc = "done" =>
        /\ InOrder(sw.tried)
        /\ \A a \in Apis : Has(sw.tried, a) <=> sw.hadQuota[a]
        /\ sw.results = sw.got["pons"] \o sw.got["linguatools"]

\* C10 amended: PONS is tried iff it has quota; Linguatools is tried iff it
\* has quota and PONS contributed no candidate (skipped, failed or answered
\* empty); what is returned is what the tried providers answered.
C10_FirstNonEmptyAnswer ==
    sw.pc = "done" =>
        /\ InOrder(sw.tried)
        /\ Has(sw.tried, "pons") <=> sw.hadQuota["pons"]
        /\ Has(sw.tried, "linguatools") <=>
              (sw.hadQuota["linguatools"] /\ sw.got["pons"] = <<>>)
        /\ sw.results = sw.got["pons"] \o sw.got["linguatools"]
        /\ \A a \in Apis : ~Has(sw.called, a) => sw.got[a] = <<>>

\* PONS was called and failed, Linguatools was tried next and answered
C10_Witness ==
    /\ sw.pc = "done"
    /\ sw.called = <<"pons", "linguatools">>
    /\ sw.got["pons"] = <<>>
    /\ sw.results # <<>>

-----------------------------------------------------------------------------
(* The quota tracker under concurrent provider calls *)

InitQuota ==
    /\ now = 0
    /\ quotaManager = [a \in Apis |-> InitialQuota(0)]
    /\ apiKey \in [Apis -> BOOLEAN]
    /\ callers = [r \in Reqs |-> IdleCaller]
    /\ lastHas = NoObs
    /\ CacheIdle
    /\ batch = BatchIdle
    /\ sw = SwIdle
    /\ VocabIdle
    /\ ToolsIdle

NextQuota ==
    \/ \E r \in Reqs : SearchPONSStart(r)
    \/ \E r \in Reqs : SearchLinguatoolsStart(r)
    \/ \E r \in Reqs : SearchReply(r)
    \/ \E r \in Reqs : SearchFail(r)
    \/ \E a \in Apis : HasQuotaCall(a)
    \/ Tick

SpecQuota == InitQuota /\ [][NextQuota]_vars

\* C1: after exactly `limit` consumed calls with no reset in between, every
\* hasQuotaAvailable call made before resetDate returns false, and the call
\* made at or after resetDate returns true and leaves used = 0.
C1_QuotaExhaustedUntilReset ==
    (lastHas.api \in Apis /\ lastHas.usedBefore = QuotaLimit) =>
        IF lastHas.due
        THEN lastHas.ret /\ lastHas.usedAfter = 0
        ELSE ~lastHas.ret /\ lastHas.usedAfter = QuotaLimit

C1_Witness ==
    /\ lastHas.api \in Apis
    /\ lastHas.usedBefore = QuotaLimit
    /\ lastHas.due
    /\ lastHas.ret

\* C2: with Concurrency requests interleaved at the await between the quota
\* check and the increment, used never exceeds limit + (Concurrency - 1).
C2_BoundedOverrun ==
    \A a \in Apis :
        quotaManager[a].used <= quotaManager[a].limit + (Concurrency - 1)

\* two requests both passed the check before either incremented
C2_Witness ==
    \E a \in Apis : quotaManager[a].used > quotaManager[a].limit

\* a step that runs hasQuotaAvailable(a): the call on its own, or the head of
\* a provider adapter whose credential is configured
RunsHasQuotaAvailable(a) ==
    \/ HasQuotaCall(a)
    \/ apiKey[a] /\ \E r \in Reqs : SearchStart(r, a)

\* a step that resets the quota of a: used falls, or resetDate changes
ResetsQuota(a) ==
    \/ quotaManager'[a].used < quotaManager[a].used
    \/ quotaManager'[a].resetDate # quotaManager[a].resetDate

\* C29: the quota of a provider is reset only by a step that runs
\* hasQuotaAvailable on it, and only when now >= resetDate; the reset leaves
\* used = 0 and resetDate at the first instant of the month after now; right
\* after any hasQuotaAvailable call, resetDate > now.
C29_ResetOnlyWhenDue ==
    [][\A a \in Apis :
          /\ ResetsQuota(a) =>
                /\ RunsHasQuotaAvailable(a)
                /\ now >= quotaManager[a].resetDate
                /\ quotaManager'[a].used = 0
                /\ quotaManager'[a].resetDate % MonthLen = 0
                /\ quotaManager'[a].resetDate > now
                /\ quotaManager'[a].resetDate - now <= MonthLen
          /\ (RunsHasQuotaAvailable(a) /\ now >= quotaManager[a].resetDate) => 
                quotaManager'[a].used = 0
          /\ RunsHasQuotaAvailable(a) => quotaManager'[a].resetDate > now']_vars

\* a hasQuotaAvailable call made at or after resetDate on a counter that had
\* been used: the counter is back at 0 and resetDate lies ahead
C29_Witness ==
    /\ lastHas.api \in Apis
    /\ lastHas.due
    /\ lastHas.usedBefore > 0
    /\ quotaManager[lastHas.api].used = 0
    /\ quotaManager[lastHas.api].resetDate > now
    /\ now >= MonthLen

\* getQuotaStatus(): a fresh object built from the fields of quotaManager
GetQuotaStatus(qm) ==
    [a \in Apis |-> [used |-> qm[a].used, limit |-> qm[a].limit,
                     remaining |-> qm[a].limit - qm[a].used,
                     resetDate |-> qm[a].resetDate]]

\* C35 as stated: in every reachable state getQuotaStatus reports, for each
\* provider, remaining = limit - used with 0 <= remaining <= limit.
C35_RemainingWithinLimit ==
    \A a \in Apis :
        LET status == GetQuotaStatus(quotaManager)[a]
        IN  /\ status.remaining = status.limit - status.used
            /\ 0 <= status.remaining
            /\ status.remaining <= status.limit

\* a step in which the network call of a request to provider a returns a response
RepliesTo(a) == \E r \in Reqs : callers[r].pc = a /\ SearchReply(r)

\* a step in which a request to provider a is rejected before dispatch
RejectsCallTo(a) ==
    \E r \in Reqs : SearchStart(r, a) /\ callers'[r].last \in {"config_error", "quota_error"}

\* C36, with the lazy reset set apart: used of a provider rises only in a step
\* where one of its network calls returns a response, and then by exactly 1;
\* any other change of used is the reset of hasQuotaAvailable, to 0 and when
\* now >= resetDate; a call that fails or is rejected before dispatch changes
\* no quota state in that step; a step of a call to one provider leaves the
\* quota state of the other provider unchanged.
C36_UsedCountsResponses ==
    [][\A a \in Apis :
          /\ RepliesTo(a) => quotaManager'[a].used = quotaManager[a].used + 1
          /\ quotaManager'[a].used > quotaManager[a].used => RepliesTo(a)
          /\ quotaManager'[a].used < quotaManager[a].used =>
                /\ RunsHasQuotaAvailable(a)
                /\ now >= quotaManager[a].resetDate
                /\ quotaManager'[a].used = 0
          /\ ((\E r \in Reqs : SearchFail(r)) \/ RejectsCallTo(a)) => quotaManager' = quotaManager
          /\ (RepliesTo(a) \/ (\E r \in Reqs : SearchStart(r, a))) =>
                \A b \in Apis \ {a} : quotaManager'[b] = quotaManager[b]
      ]_vars

\* one request got a response that was counted, another was rejected for
\* want of quota
C36_Witness ==
    \E r1, r2 \in Reqs :
        /\ callers[r1].last = "ok"
        /\ callers[r2].last = "quota_error"
        /\ \E a \in Apis : quotaManager[a].used = QuotaLimit

\* C36 as stated: a call that fails or is rejected before dispatch has left
\* used unchanged.
C36_FailedCallLeavesUsedUnchanged ==
    \A r \in Reqs :
        callers[r].last \in {"net_error", "config_error", "quota_error"} => ~callers[r].changed

-----------------------------------------------------------------------------
(* The cache while the clock runs: writes, reads, expiry *)

\* the rows a former run of the process left in vocabulary_cache
PersistedRows(keys) ==
    {db \in [Keys -> {NoRow, NewRow("v1", 0)}] : \A k \in Keys \ keys : db[k] = NoRow}

WrittenOf(db) ==
    [k \in Keys |-> IF db[k] = NoRow THEN NoWrite
                    ELSE [data |-> JsonParse(db[k].parsed_data), at |-> db[k].createdAt]]

InitCache ==
    /\ now = 0
    /\ QuotaIdle
    /\ memoryCache = <<>>
    /\ dbCache \in PersistedRows(TimedKeys)
    /\ pendingDel = {}
    /\ booted = FALSE
    /\ readers = [r \in Readers |-> IdleReader]
    /\ lastRead = NoRead
    /\ written = WrittenOf(dbCache)
    /\ memLog = EmptyLog
    /\ batch = BatchIdle
    /\ sw = SwIdle
    /\ VocabIdle
    /\ ToolsIdle

NextCache ==
    \/ LoadFrequentWordsToMemory
    \/ \E r \in TimedReaders, k \in TimedKeys : SearchWordStart(r, k)
    \/ \E r \in TimedReaders : DbGetDone(r)
    \/ \E r \in TimedReaders : UpdateAccessDone(r)
    \/ \E k \in Keys : RemoveFromDbCacheDone(k)
    \/ \E k \in TimedKeys, d \in Data : SaveToDbCache(k, d)
    \/ Tick

SpecCache == InitCache /\ [][NextCache]_vars

\* C3: an entry written at time T is returned unchanged by every read at
\* T + d with d < TTL, and every read at T + d with d >= TTL is a miss.
C3_HitBeforeTtlMissFromTtl ==
    (lastRead.key # 0 /\ lastRead.atomic /\ lastRead.w # NoWrite /\ lastRead.w.at < lastRead.t) =>
        IF lastRead.t - lastRead.w.at < CacheExpiry
        THEN lastRead.res = lastRead.w.data
        ELSE lastRead.res = Miss

\* the steps of a searchWord call of reader r
StartsRead(r) == readers[r].pc = "idle" /\ readers'[r].pc = "dbGet"
HitsMemory(r) == readers[r].pc = "idle" /\ readers' = readers /\ lastRead' # lastRead
EndsDbGet(r) == readers[r].pc = "dbGet" /\ readers'[r].pc # "dbGet"
EndsPromotion(r) == readers[r].pc = "updAccess" /\ readers'[r].pc = "idle"

C17_NoExpiredEntryReturned ==
    (lastRead.atomic /\ lastRead.res \notin {"none", Miss} /\ lastRead.res = lastRead.w.data) =>
        lastRead.t - lastRead.w.at < CacheExpiry

\* C15: a cache write leaves the written value in the one durable row of its
\* key and in the memory tier, so that a read right after it is a memory hit.
C15_WriteReachesBothTiers ==
    [][\A k \in Keys :
        written'[k] # written[k] =>
            /\ dbCache'[k] # NoRow
            /\ JsonParse(dbCache'[k].parsed_data) = written'[k].data
            /\ MapHas(memoryCache', k)
            /\ MapGet(memoryCache', k).data = written'[k].data
      ]_vars

\* a step in which a read returns a miss
ReturnsMiss(r) == readers[r].pc = "dbGet" /\ readers'[r].pc = "idle"

\* C30 as stated: every read that returns a hit, from the memory tier or from
\* the durable tier, sets accessedAt of the entry's row to now and raises its
\* accessCount by exactly 1; a read that returns a miss changes accessedAt and
\* accessCount of no row.
C30_EveryHitCountsOneAccess ==
    [][\A r \in Readers :
        /\ (HitsMemory(r) \/ EndsPromotion(r)) =>
              LET k == lastRead'.key
              IN  dbCache[k] # NoRow =>
                    /\ dbCache'[k].accessedAt = now
                    /\ dbCache'[k].accessCount = dbCache[k].accessCount + 1
        /\ ReturnsMiss(r) =>
              \A k \in Keys :
                  /\ dbCache'[k].accessedAt = dbCache[k].accessedAt
                  /\ dbCache'[k].accessCount = dbCache[k].accessCount
      ]_vars

-----------------------------------------------------------------------------
(* The memory tier filling up: promotions and the preload, clock standing *)

InitLru ==
    /\ now = 0
    /\ QuotaIdle
    /\ memoryCache = <<>>
    /\ dbCache \in {[k \in Keys |-> NewRow("v1", 0)],
                    [k \in Keys |-> IF k = 2 THEN UpdateCacheAccess(NewRow("v1", 0), 0)
                                    ELSE NewRow("v1", 0)]}
    /\ pendingDel = {}
    /\ booted = FALSE
    /\ readers = [r \in Readers |-> IdleReader]
    /\ lastRead = NoRead
    /\ written = WrittenOf(dbCache)
    /\ memLog = EmptyLog
    /\ batch = BatchIdle
    /\ sw = SwIdle
    /\ VocabIdle
    /\ ToolsIdle

NextLru ==
    \/ LoadFrequentWordsToMemory
    \/ \E r \in Readers, k \in Keys : SearchWordStart(r, k)
    \/ \E r \in Readers : DbGetDone(r)
    \/ \E r \in Readers : UpdateAccessDone(r)

SpecLru == InitLru /\ [][NextLru]_vars

Distinct(q) == \A i, j \in 1..Len(q) : i # j => q[i] # q[j]
KeysOf(m) == [i \in 1..Len(m) |-> m[i].key]

\* C4: inserting distinct keys into the empty memory tier evicts nothing
\* until it is full; the insert of key N+1 causes exactly one eviction, of
\* the first-inserted key, and leaves N entries: the tier holds the last
\* inserted keys in insertion order, whatever was read in between.
C4_FifoEviction ==
    (memLog.clean /\ Distinct(memLog.ins)) =>
        LET n == Len(memLog.ins)
            kept == Min(n, MaxMemoryCache)
        IN  /\ memLog.ev = SubSeq(memLog.ins, 1, n - kept)
            /\ KeysOf(memoryCache) = SubSeq(memLog.ins, n - kept + 1, n)

\* N+1 distinct keys went in; the first-inserted one is the only key that
\* was read from memory in between, and it is the one that was evicted
C4_Witness ==
    /\ memLog.clean /\ Distinct(memLog.ins)
    /\ Len(memLog.ins) = MaxMemoryCache + 1
    /\ memLog.hits = {memLog.ins[1]}
    /\ lastRead.key = memLog.ins[MaxMemoryCache + 1]
    /\ memLog.ev = <<memLog.ins[1]>>
    /\ Len(memoryCache) = MaxMemoryCache

\* C37 as stated: the memory tier never holds more than maxMemoryCache
\* entries nor two entries of one key, and the addToMemoryCache that ends a
\* promotion of a key already in the tier (a second reader promoted it
\* meanwhile) removes no other key from the tier.
C37_PresentKeyEvictsNothing ==
    [][/\ Len(memoryCache') <= MaxMemoryCache
       /\ Distinct(KeysOf(memoryCache'))
       /\ \A r \in Readers :
             (EndsPromotion(r) /\ MapHas(memoryCache, readers[r].key)) =>
                 \A k \in Keys \ {readers[r].key} :
                     MapHas(memoryCache, k) => MapHas(memoryCache', k)
      ]_vars


-----------------------------------------------------------------------------
(* Rule-based fallback: aiEnrichment.js and wordAnalyzer.js *)

Lower == <<"a","b","c","d","e","f","g","h","i","j","k","l","m",
           "n","o","p","q","r","s","t","u","v","w","x","y","z">>
Upper == <<"A","B","C","D","E","F","G","H","I","J","K","L","M",
           "N","O","P","Q","R","S","T","U","V","W","X","Y","Z">>

\* the words enriched, by the key they have in the cache
EnWords == {1, 2, 3}
\* the words given to the LLM operations: those, and "Schönheit"
LlmWords == EnWords \cup {4}
Spelling(w) ==
    IF w = 1 THEN <<"Z","e","i","t","u","n","g">>
    ELSE IF w = 2 THEN <<"g","e","h","e","n">>
    ELSE IF w = 3 THEN <<"l","u","s","t","i","g">>
    ELSE <<"S","c","h","ö","n","h","e","i","t">>

\* String.prototype.charAt / toUpperCase / endsWith
CharAt(word, i) == IF i < Len(word) THEN <<word[i + 1]>> ELSE <<>>
ToUpperCase(str) ==
    [i \in 1..Len(str) |->
        IF \E j \in 1..Len(Lower) : Lower[j] = str[i]
        THEN Upper[CHOOSE j \in 1..Len(Lower) : Lower[j] = str[i]]
        ELSE str[i]]
EndsWith(word, suffix) ==
    /\ Len(suffix) <= Len(word)
    /\ SubSeq(word, Len(word) - Len(suffix) + 1, Len(word)) = suffix

\* word.charAt(0) === word.charAt(0).toUpperCase()
Capitalized(word) == CharAt(word, 0) = ToUpperCase(CharAt(word, 0))

GuessArticleAlwaysDer(word) == IF ~Capitalized(word) THEN "null" ELSE "der"

\* guessArticle, the same rules in both services
GuessArticle(word) ==
    IF ~Capitalized(word) THEN "null"
    ELSE IF EndsWith(word, <<"u","n","g">>) \/ EndsWith(word, <<"h","e","i","t">>)
            \/ EndsWith(word, <<"k","e","i","t">>) THEN "die"
    ELSE IF EndsWith(word, <<"c","h","e","n">>) \/ EndsWith(word, <<"l","e","i","n">>) THEN "das"
    ELSE "der"

\* aiEnrichment.guessWordType
GuessWordTypeEnrichment(word) ==
    IF Capitalized(word) THEN "noun"
    ELSE IF EndsWith(word, <<"e","n">>) \/ EndsWith(word, <<"i","e","r","e","n">>) THEN "verb"
    ELSE "unknown"

\* wordAnalyzer.guessWordType
GuessWordType(word) ==
    IF Capitalized(word) THEN "noun"
    ELSE IF EndsWith(word, <<"e","n">>) \/ EndsWith(word, <<"i","e","r","e","n">>) THEN "verb"
    ELSE IF EndsWith(word, <<"i","g">>) \/ EndsWith(word, <<"l","i","c","h">>)
            \/ EndsWith(word, <<"i","s","c","h">>) THEN "adjective"
    ELSE "unknown"

\* aiEnrichment.guessLevel
GuessLevel(word) ==
    IF Len(word) <= 5 THEN "A1"
    ELSE IF Len(word) <= 8 THEN "A2"
    ELSE IF Len(word) <= 12 THEN "B1" ELSE "B2"

\* generateSimpleExample: `Das ist ${article} ${word}.` / `Ich ${word}.`
GenerateSimpleExample(word, article) ==
    IF article # "null" THEN <<"Das ist", article, word, ".">> ELSE <<"Ich", word, ".">>

\* aiEnrichment.getFallbackEnrichment (the category is left out)
GetFallbackEnrichment(word) ==
    [article |-> GuessArticle(word), pronunciation |-> "",
     example_sentence |-> GenerateSimpleExample(word, GuessArticle(word)),
     word_type |-> GuessWordTypeEnrichment(word), level |-> GuessLevel(word),
     producer |-> "fallback"]

\* wordAnalyzer.getFallbackAnalysis (the translation and the date are left out)
GetFallbackAnalysis(word) ==
    [word_type |-> GuessWordType(word),
     german_display |-> IF GuessArticle(word) # "null" THEN <<GuessArticle(word), word>> ELSE <<word>>,
     pronunciation |-> "",
     example_sentence |-> GenerateSimpleExample(word, GuessArticle(word)),
     grammar_note |-> IF GuessWordType(word) = "noun" THEN "Remember the article!"
                      ELSE "Practice conjugation",
     difficulty |-> "medium", level_suggestion |-> "A1", fallback |-> TRUE,
     producer |-> "fallback"]

-----------------------------------------------------------------------------
(* Search mode: VocabularyManager.searchVocabulary (part_004) *)

\* the words looked up
SvWords == {1, 2}
\* the searchWord call the manager makes
ManagerReader == "r2"

\* a candidate a provider adapter built (parsePONSResponse pushes no
\* confidence, parseLinguatoolsResponse pushes translation.confidence || 0)
\* confidence is in tenths; translation_en and example_sentence are the lengths
\* of the strings; the adapters always give an article (article || 'das'), a
\* translation and an example (`${article} ${word} ist wichtig.`)
Candidate(w, src, conf, art) ==
    [word |-> w, source |-> src, confidence |-> conf, frequency |-> 0, article |-> art,
     translation_en |-> 5, example_sentence |-> 20, producer |-> "provider"]

\* the candidate lists the cached parsed_data stand for
ResultsOf(d, w) ==
    IF d = "v1"
    THEN <<Candidate(w, "pons", 0, "die")>>
    ELSE <<Candidate(w, "linguatools", 2, "das"), Candidate(w, "pons", 0, "der")>>

\* a row the vocabulary importer inserted
ImportedRow(w) ==
    [word |-> w, source |-> "imported", confidence |-> 10, frequency |-> 0, article |-> "der",
     translation_en |-> 5, example_sentence |-> 0, producer |-> "import"]

\* config.apis?.pons?.apiKey || config.apis?.linguatools?.apiKey
HasApiKeys == apiKey["pons"] \/ apiKey["linguatools"]

\* SELECT * FROM vocabulary WHERE LOWER(word) = LOWER(?) ORDER BY confidence DESC ... LIMIT 1:
\* the rows SQLite may give (none: undefined)
GetWordFromDatabase(st, w) ==
    {row \in st : row.word = w /\ \A o \in st : o.word = w => o.confidence <= row.confidence}

\* INSERT OR REPLACE INTO vocabulary: the table has no unique key on word, so
\* a row is added; wordData.confidence || 1.0
SaveWordToDatabase(st, wordData) ==
    st \cup {[wordData EXCEPT !.confidence = IF @ = 0 THEN 10 ELSE @]}

\* the sum of calculateResultScore before Math.max(0, score), in thousandths
RawScore(result) ==
    (IF result.confidence # 0 THEN 40 * result.confidence ELSE 0)
    + (IF result.frequency # 0 THEN (3 * Min(result.frequency, 1000)) \div 10 ELSE 0)
    + (IF result.source = "pons" THEN 200
       ELSE IF result.source = "linguatools" THEN 100 ELSE 0)
    - (IF result.article \in {"der", "die", "das"} THEN 0 ELSE 300)
    - (IF result.translation_en < 2 THEN 200 ELSE 0)
    - (IF result.example_sentence < 10 THEN 100 ELSE 0)

CalculateResultScoreUnclamped(result) == RawScore(result)

\* calculateResultScore, in thousandths
CalculateResultScore(result) == IF RawScore(result) < 0 THEN 0 ELSE RawScore(result)

ScoreInsertBeforeTies(x, sorted) ==
    LET n == Cardinality({i \in 1..Len(sorted) :
                            CalculateResultScore(sorted[i]) > CalculateResultScore(x)})
    IN  SubSeq(sorted, 1, n) \o <<x>> \o SubSeq(sorted, n + 1, Len(sorted))

\* one element put into a list sorted by (a, b) => b.score - a.score: behind
\* every element that does not compare after it (the sort of Node >= 11 is stable)
ScoreInsert(x, sorted) ==
    LET n == Cardinality({i \in 1..Len(sorted) :
                            CalculateResultScore(sorted[i]) >= CalculateResultScore(x)})
    IN  SubSeq(sorted, 1, n) \o <<x>> \o SubSeq(sorted, n + 1, Len(sorted))

\* scored.sort((a, b) => b.score - a.score)
RECURSIVE ScoreSort(_)
ScoreSort(list) ==
    IF list = <<>> THEN <<>>
    ELSE ScoreInsert(list[Len(list)], ScoreSort(SubSeq(list, 1, Len(list) - 1)))

\* selectBestResult of a non-empty list: results[0], or scored[0] after the sort
\* (the score field the copy carries is left out)
SelectBestResult(results) ==
    IF Len(results) = 1 THEN results[1] ELSE ScoreSort(results)[1]

NoCandidatesGuessed(w) == <<GetFallbackAnalysis(Spelling(w))>>

\* "No APIs available, return empty result": return []
NoCandidates(w) == <<>>

\* what searchWord resolved with: cached.data / cachedResult, or [] on a miss
CacheAnswer(res, w) == IF res = Miss THEN <<>> ELSE ResultsOf(res, w)

SvReturn(s, list) == [s EXCEPT !.pc = "done", !.outcome = "returned", !.returned = list]
SvRaise(s) == [s EXCEPT !.pc = "done", !.outcome = "raised", !.returned = <<>>]

\* searchVocabulary after cache.searchWord resolved: the save is issued, or results is returned
AfterSearchWord(s, results) ==
    IF Len(results) > 0
    THEN [s EXCEPT !.pc = "save", !.results = results]
    ELSE SvReturn(s, results)

\* searchVocabulary(word) up to its first await: getWordFromDatabase is issued
SvStart(w) ==
    /\ booted
    /\ sv.pc \in {"idle", "done"}
    /\ readers[ManagerReader].pc = "idle"
    /\ sv' = [SvIdle EXCEPT !.pc = "store", !.word = w]
    /\ UNCHANGED <<now, quotaVars, cacheVars, batch, toolVars, sw, store, en, mgr, quiz>>

\* the callback of getWordFromDatabase with a row: return [existingWord]
SvStoreHit ==
    /\ sv.pc = "store"
    /\ \E row \in GetWordFromDatabase(store, sv.word) :
          sv' = SvReturn([sv EXCEPT !.found = TRUE], <<row>>)
    /\ UNCHANGED <<now, quotaVars, cacheVars, batch, toolVars, sw, store, en, mgr, quiz>>

\* the callback of getWordFromDatabase with an error: the rejection leaves searchVocabulary
SvStoreError ==
    /\ sv.pc = "store"
    /\ sv' = SvRaise(sv)
    /\ UNCHANGED <<now, quotaVars, cacheVars, batch, toolVars, sw, store, en, mgr, quiz>>

SvStoreMissAlways ==
    /\ sv.pc = "store"
    /\ IF HasApiKeys
       THEN /\ SearchWordStep(ManagerReader, sv.word)
            /\ sv' = IF readers'[ManagerReader].pc = "idle"
                     THEN AfterSearchWord(sv, CacheAnswer(lastRead'.res, sv.word))
                     ELSE [sv EXCEPT !.pc = "cache"]
       ELSE /\ sv' = SvReturn(sv, NoCandidates(sv.word))
            /\ UNCHANGED <<now, cacheVars>>
    /\ UNCHANGED <<quotaVars, batch, toolVars, sw, store, en, mgr, quiz>>

\* the callback of getWordFromDatabase without a row: hasApiKeys, then
\* cache.searchWord up to its first await, or return []
SvStoreMiss ==
    /\ sv.pc = "store"
    /\ GetWordFromDatabase(store, sv.word) = {}
    /\ IF HasApiKeys
       THEN /\ SearchWordStep(ManagerReader, sv.word)
            /\ sv' = IF readers'[ManagerReader].pc = "idle"
                     THEN AfterSearchWord(sv, CacheAnswer(lastRead'.res, sv.word))
                     ELSE [sv EXCEPT !.pc = "cache"]
       ELSE /\ sv' = SvReturn(sv, NoCandidates(sv.word))
            /\ UNCHANGED <<now, cacheVars>>
    /\ UNCHANGED <<quotaVars, batch, toolVars, sw, store, en, mgr, quiz>>

\* the callback of getFromDbCache inside the manager's searchWord
SvCacheDbDone ==
    /\ sv.pc = "cache"
    /\ DbGetStep(ManagerReader)
    /\ sv' = IF readers'[ManagerReader].pc = "idle"
             THEN AfterSearchWord(sv, CacheAnswer(lastRead'.res, sv.word))
             ELSE sv
    /\ UNCHANGED <<quotaVars, batch, toolVars, sw, store, en, mgr, quiz>>

\* the callback of updateCacheAccess inside the manager's searchWord
SvCacheAccessDone ==
    /\ sv.pc = "cache"
    /\ UpdateAccessStep(ManagerReader)
    /\ sv' = AfterSearchWord(sv, CacheAnswer(lastRead'.res, sv.word))
    /\ UNCHANGED <<quotaVars, batch, toolVars, sw, store, en, mgr, quiz>>

\* a query of the manager's searchWord fails: caught, return []
SvCacheError ==
    /\ sv.pc = "cache"
    /\ readers' = [readers EXCEPT ![ManagerReader] = IdleReader]
    /\ sv' = SvReturn([sv EXCEPT !.failed = TRUE], <<>>)
    /\ UNCHANGED <<now, quotaVars, memoryCache, dbCache, pendingDel, booted, lastRead,
                   written, memLog, batch, toolVars, sw, store, en, mgr, quiz>>

\* the callback of saveWordToDatabase(bestResult): return results
SvSaveDone ==
    /\ sv.pc = "save"
    /\ store' = SaveWordToDatabase(store, SelectBestResult(sv.results))
    /\ sv' = SvReturn(sv, sv.results)
    /\ UNCHANGED <<now, quotaVars, cacheVars, batch, toolVars, sw, en, mgr, quiz>>

\* the callback of saveWordToDatabase with an error: caught, return []
SvSaveError ==
    /\ sv.pc = "save"
    /\ sv' = SvReturn([sv EXCEPT !.failed = TRUE], <<>>)
    /\ UNCHANGED <<now, quotaVars, cacheVars, batch, toolVars, sw, store, en, mgr, quiz>>

\* the rows of vocabulary_cache and vocabulary a former run left
CachedRows ==
    {db \in [Keys -> {NoRow, NewRow("v1", 0), NewRow("v2", 0)}] :
        \A k \in Keys \ SvWords : db[k] = NoRow}

StoredRows == {{}, {ImportedRow(1)}}

InitSearch ==
    /\ now \in {0, CacheExpiry + 1}
    /\ \E u \in {0, QuotaLimit} : quotaManager = [a \in Apis |-> [InitialQuota(0) EXCEPT !.used = u]]
    /\ apiKey \in [Apis -> BOOLEAN]
    /\ callers = [r \in Reqs |-> IdleCaller]
    /\ lastHas = NoObs
    /\ memoryCache = <<>>
    /\ dbCache \in CachedRows
    /\ pendingDel = {}
    /\ booted = FALSE
    /\ readers = [r \in Readers |-> IdleReader]
    /\ lastRead = NoRead
    /\ written = WrittenOf(dbCache)
    /\ memLog = EmptyLog
    /\ batch = BatchIdle
    /\ sw = SwIdle
    /\ store \in StoredRows
    /\ sv = SvIdle
    /\ en = EnIdle
    /\ mgr = MgrIdle
    /\ quiz = QuizIdle
    /\ ToolsIdle

NextSearch ==
    \/ LoadFrequentWordsToMemory
    \/ \E w \in SvWords : SvStart(w)
    \/ SvStoreHit
    \/ SvStoreError
    \/ SvStoreMiss
    \/ SvCacheDbDone
    \/ SvCacheAccessDone
    \/ SvCacheError
    \/ SvSaveDone
    \/ SvSaveError
    \/ \E k \in Keys : RemoveFromDbCacheDone(k)

SpecSearch == InitSearch /\ [][NextSearch]_vars

\* C8: whatever the store, the cache and the quota hold, a list that
\* searchVocabulary returns holds no record made by the rule-based fallback
\* engine: it is the row of the store, or the candidates the cache gave, and it
\* is the empty list when the store has no row for the word and either no
\* provider is configured or the cache gave no candidate.
C8_SearchNeverReturnsFallback ==
    (sv.pc = "done" /\ sv.outcome = "returned") =>
        /\ \A i \in 1..Len(sv.returned) : sv.returned[i].producer # "fallback"
        /\ (~sv.found /\ (~HasApiKeys \/ sv.results = <<>>)) => sv.returned = <<>>
        /\ sv.found => (Len(sv.returned) = 1 /\ sv.returned[1] \in store)
        /\ (~sv.found /\ sv.returned # <<>>) => sv.returned = sv.results

\* C19: when the store has a row for the word, the step of searchVocabulary
\* that takes the answer of the store lookup ends the call with the list of
\* exactly one row the lookup gives (or with the error of the lookup), and it
\* reads no cache tier, calls no provider, and leaves the cache, the quota
\* counters and the store as they were.
C19_StoreHitTouchesNothing ==
    [][(sv.pc = "store" /\ sv' # sv /\ GetWordFromDatabase(store, sv.word) # {}) =>
          /\ sv'.pc = "done"
          /\ \/ sv'.outcome = "raised"
             \/ /\ sv'.outcome = "returned"
                /\ \E row \in GetWordFromDatabase(store, sv.word) : sv'.returned = <<row>>
          /\ UNCHANGED <<cacheVars, quotaVars, sw, store, mgr, quiz>>
      ]_vars

\* a call answered from the store while a provider is configured and the
\* cache holds a row for the word that no read has touched
C19_Witness ==
    /\ sv.pc = "done" /\ sv.found /\ sv.outcome = "returned"
    /\ Len(sv.returned) = 1
    /\ sv.returned[1] \in GetWordFromDatabase(store, sv.word)
    /\ HasApiKeys
    /\ dbCache[sv.word] # NoRow
    /\ lastRead.key # sv.word

\* C20 as stated: when searchVocabulary got a non-empty list of candidates
\* and returned, the list it returns is the one record selectBestResult chose,
\* and that record is in the store and in the cache row of the word.
C20_BestResultStoredCachedReturned ==
    (sv.pc = "done" /\ sv.outcome = "returned" /\ ~sv.found /\ sv.results # <<>>
        /\ sv.returned # <<>>) =>
        LET best == SelectBestResult(sv.results)
        IN  /\ sv.returned = <<best>>
            /\ SaveWordToDatabase({}, best) \subseteq store
            /\ dbCache[sv.word] # NoRow
            /\ CacheAnswer(JsonParse(dbCache[sv.word].parsed_data), sv.word) = <<best>>

\* C21 as stated: for a word without a row in the store whose cache row is
\* younger than the TTL, searchVocabulary returns the cached records when no
\* query fails, whether or not a provider key is configured (the manager calls
\* no provider on any path).
C21_CachedRecordsWithoutCredentials ==
    (/\ sv.pc = "done" /\ sv.outcome = "returned" /\ ~sv.found /\ ~sv.failed
     /\ dbCache[sv.word] # NoRow
     /\ now - dbCache[sv.word].createdAt < CacheExpiry) =>
        sv.returned = CacheAnswer(JsonParse(dbCache[sv.word].parsed_data), sv.word)

\* C12 as stated: a search for a word that is in neither the store nor a
\* tier of the cache, with a provider configured, yields a record, and the
\* record has a confidence in [0, 1] and an article in {der, die, das, none}.
C12_ColdSearchYieldsValidRecord ==
    (/\ sv.pc = "done" /\ sv.outcome = "returned"
     /\ ~sv.found /\ HasApiKeys
     /\ written[sv.word] = NoWrite /\ dbCache[sv.word] = NoRow
     /\ ~MapHas(memoryCache, sv.word)) =>
        /\ sv.returned # <<>>
        /\ \A i \in 1..Len(sv.returned) :
              /\ sv.returned[i].confidence \in 0..10
              /\ sv.returned[i].article \in {"der", "die", "das", "none"}

\* a search that found no row and no usable provider, with the quota used up
C8_Witness ==
    /\ sv.pc = "done"
    /\ sv.outcome = "returned"
    /\ ~HasApiKeys
    /\ ~sv.found
    /\ quotaManager["pons"].used = QuotaLimit
    /\ \E k \in Keys : dbCache[k] # NoRow
    /\ sv.returned = <<>>

-----------------------------------------------------------------------------
(* Enrichment mode: enrichGermanWord, analyzeWord, enrichVocabulary *)

LlmOps == {"enrichGermanWord", "analyzeWord"}
KnownProviders == {"ollama", "openai", "groq", "anthropic"}
\* what a provider call may end with: a usable JSON answer, a text without
\* usable JSON, an empty text, a rejected request
ReplyKinds == {"valid", "garbled", "empty", "error"}

\* const models = ['ollama', 'openai', 'anthropic']
EnrichmentModels == <<"ollama", "openai", "anthropic">>

\* [...new Set(providers)]: the first occurrence of each name, in order
Unique(q) == SelectSeq([i \in 1..Len(q) |-> IF \E j \in 1..(i - 1) : q[j] = q[i] THEN "" ELSE q[i]],
                       LAMBDA x : x # "")

AnalyzerProvidersRepeated(def) == <<def, "groq", "ollama", "openai", "anthropic">>

\* const uniqueProviders = [...new Set([this.defaultProvider, 'groq', 'ollama', 'openai', 'anthropic'])]
AnalyzerProviders(def) == Unique(<<def, "groq", "ollama", "openai", "anthropic">>)

\* the call of a provider gets as far as its request: the name is known and,
\* but for ollama, a key is set
Configured(p, keys) == p \in KnownProviders /\ (p = "ollama" \/ p \in keys)

\* the loop over the providers skips those whose call throws at once
RECURSIVE DropUnconfigured(_, _)
DropUnconfigured(q, keys) ==
    IF q = <<>> THEN q
    ELSE IF Configured(Head(q), keys) THEN q
    ELSE DropUnconfigured(Tail(q), keys)

\* the record a usable answer of a LLM is parsed into
LlmRecord(op, w) == [op |-> op, word |-> w, producer |-> "llm"]

EnReturn(e, rec) == [e EXCEPT !.pc = "done", !.outcome = "returned", !.record = rec]

RaiseOnFailure(e) == [e EXCEPT !.pc = "done", !.outcome = "raised", !.exhausted = TRUE]

\* throw new Error('All ... failed') / 'Invalid LLM response', and the catch of
\* enrichGermanWord / analyzeWord
FallbackOnFailure(e) ==
    EnReturn([e EXCEPT !.exhausted = TRUE],
             IF e.op = "enrichGermanWord" THEN GetFallbackEnrichment(Spelling(e.word))
             ELSE GetFallbackAnalysis(Spelling(e.word)))

\* the loop of tryWithModels / callLLM up to the next request, or its end
NextCall(e) ==
    LET q == DropUnconfigured(e.queue, e.keys)
    IN  IF q = <<>> THEN FallbackOnFailure([e EXCEPT !.tried = @ \o e.queue])
        ELSE [e EXCEPT !.pc = "llm", !.cur = Head(q), !.queue = Tail(q),
                       !.tried = @ \o SubSeq(e.queue, 1, Len(e.queue) - Len(q) + 1),
                       !.asked = Append(@, Head(q))]

\* enrichGermanWord(word) / analyzeWord(word) up to the first request
EnStartLlm(op, w) ==
    /\ en.pc \in {"idle", "done", "pushed"}
    /\ en' = NextCall([EnFresh(en.keys, en.def) EXCEPT
                          !.op = op, !.word = w,
                          !.queue = IF op = "enrichGermanWord" THEN EnrichmentModels
                                    ELSE AnalyzerProviders(en.def)])
    /\ UNCHANGED <<now, quotaVars, cacheVars, batch, toolVars, sw, store, sv, mgr, quiz>>

\* the request of the current provider settles
LlmReply(kind) ==
    /\ en.pc = "llm"
    /\ en' = IF kind = "valid" THEN EnReturn(en, LlmRecord(en.op, en.word))
             ELSE IF kind = "garbled" /\ en.op = "analyzeWord"
             THEN \* callLLM returned the text, parseAnalysis threw
                  FallbackOnFailure(en)
             ELSE \* parseAIResponse threw inside the call, the text was falsy, or the request failed
                  NextCall(en)
    /\ UNCHANGED <<now, quotaVars, cacheVars, batch, toolVars, sw, store, sv, mgr, quiz>>

\* { ...word, ...enriched, source: 'ai_enriched' }
BatchEntry(w, enriched) ==
    [f \in DOMAIN enriched \cup {"word", "source"} |->
        IF f = "source" THEN "ai_enriched"
        ELSE IF f \in DOMAIN enriched THEN enriched[f] ELSE w]

\* aiEnrichment.batchEnrichVocabulary after its enrichGermanWord call returned:
\* results.push of the merged entry
AiBatchPush ==
    /\ en.pc = "done"
    /\ en.op = "enrichGermanWord"
    /\ en' = [en EXCEPT !.pc = "pushed", !.record = BatchEntry(en.word, en.record)]
    /\ UNCHANGED <<now, quotaVars, cacheVars, batch, toolVars, sw, store, sv, mgr, quiz>>

NoResultsFound(w) == [success |-> FALSE, word |-> w, error |-> "No results found", producer |-> "none"]
EnrichError(w) == [success |-> FALSE, word |-> w, error |-> "error.message", producer |-> "none"]
Enriched(best) == [success |-> TRUE, word |-> best.word, data |-> best, producer |-> best.producer]

\* enrichVocabulary after cache.searchWord resolved
AfterEnrichSearch(e, results) ==
    IF Len(results) > 0
    THEN [e EXCEPT !.pc = "save", !.results = results]
    ELSE EnReturn([e EXCEPT !.exhausted = TRUE], NoResultsFound(e.word))

\* enrichVocabulary(word) up to its first await, inside cache.searchWord
EnStartVocab(w) ==
    /\ en.pc \in {"idle", "done", "pushed"}
    /\ readers[ManagerReader].pc = "idle"
    /\ SearchWordStep(ManagerReader, w)
    /\ LET e == [EnFresh(en.keys, en.def) EXCEPT !.op = "enrichVocabulary", !.word = w]
       IN  en' = IF readers'[ManagerReader].pc = "idle"
                 THEN AfterEnrichSearch(e, CacheAnswer(lastRead'.res, w))
                 ELSE [e EXCEPT !.pc = "cache"]
    /\ UNCHANGED <<quotaVars, batch, toolVars, sw, store, sv, mgr, quiz>>

\* the callback of getFromDbCache inside enrichVocabulary's searchWord
EnCacheDbDone ==
    /\ en.pc = "cache"
    /\ DbGetStep(ManagerReader)
    /\ en' = IF readers'[ManagerReader].pc = "idle"
             THEN AfterEnrichSearch(en, CacheAnswer(lastRead'.res, en.word))
             ELSE en
    /\ UNCHANGED <<quotaVars, batch, toolVars, sw, store, sv, mgr, quiz>>

\* the callback of updateCacheAccess inside enrichVocabulary's searchWord
EnCacheAccessDone ==
    /\ en.pc = "cache"
    /\ UpdateAccessStep(ManagerReader)
    /\ en' = AfterEnrichSearch(en, CacheAnswer(lastRead'.res, en.word))
    /\ UNCHANGED <<quotaVars, batch, toolVars, sw, store, sv, mgr, quiz>>

\* a query of enrichVocabulary's searchWord fails: caught
EnCacheError ==
    /\ en.pc = "cache"
    /\ readers' = [readers EXCEPT ![ManagerReader] = IdleReader]
    /\ en' = EnReturn([en EXCEPT !.exhausted = TRUE], EnrichError(en.word))
    /\ UNCHANGED <<now, quotaVars, memoryCache, dbCache, pendingDel, booted, lastRead,
                   written, memLog, batch, toolVars, sw, store, sv, mgr, quiz>>

\* the callback of saveWordToDatabase(bestResult) in enrichVocabulary
EnSaveDone ==
    /\ en.pc = "save"
    /\ store' = SaveWordToDatabase(store, SelectBestResult(en.results))
    /\ en' = EnReturn(en, Enriched(SelectBestResult(en.results)))
    /\ UNCHANGED <<now, quotaVars, cacheVars, batch, toolVars, sw, sv, mgr, quiz>>

\* the callback of saveWordToDatabase with an error: caught
EnSaveError ==
    /\ en.pc = "save"
    /\ en' = EnReturn(en, EnrichError(en.word))
    /\ UNCHANGED <<now, quotaVars, cacheVars, batch, toolVars, sw, store, sv, mgr, quiz>>

\* process.env of the runs followed
EnvKeys == {{}, {"openai"}, {"openai", "groq", "anthropic"}}
EnvDefaults == {"ollama", "groq"}

InitEnrich ==
    /\ now = 0
    /\ quotaManager = [a \in Apis |-> InitialQuota(0)]
    /\ apiKey = [a \in Apis |-> FALSE]
    /\ callers = [r \in Reqs |-> IdleCaller]
    /\ lastHas = NoObs
    /\ memoryCache = <<>>
    /\ dbCache \in CachedRows
    /\ pendingDel = {}
    /\ booted = FALSE
    /\ readers = [r \in Readers |-> IdleReader]
    /\ lastRead = NoRead
    /\ written = WrittenOf(dbCache)
    /\ memLog = EmptyLog
    /\ batch = BatchIdle
    /\ sw = SwIdle
    /\ store = {}
    /\ sv = SvIdle
    /\ \E keys \in EnvKeys, def \in EnvDefaults : en = EnFresh(keys, def)
    /\ mgr = MgrIdle
    /\ quiz = QuizIdle
    /\ ToolsIdle

NextEnrich ==
    \/ LoadFrequentWordsToMemory
    \/ \E op \in LlmOps, w \in LlmWords : EnStartLlm(op, w)
    \/ \E kind \in ReplyKinds : LlmReply(kind)
    \/ \E w \in EnWords : EnStartVocab(w)
    \/ EnCacheDbDone
    \/ EnCacheAccessDone
    \/ EnCacheError
    \/ EnSaveDone
    \/ EnSaveError
    \/ AiBatchPush

SpecEnrich == InitEnrich /\ [][NextEnrich]_vars

\* C9 as stated: an enrichment operation that got no usable answer from any
\* source returns the record of the rule-based fallback engine, whichever of
\* the three operations it is, and never raises.
C9_FallbackInEveryEnrichment ==
    en.pc = "done" =>
        /\ en.outcome = "returned"
        /\ en.exhausted => en.record.producer = "fallback"

\* C9 amended: no enrichment operation raises; enrichGermanWord and analyzeWord
\* that got no usable answer return the record of their rule-based engine for
\* the word; enrichVocabulary that got no candidate returns a failed outcome
\* (success = false), which is no fallback record.
C9_FallbackInLlmEnrichment ==
    en.pc = "done" =>
        /\ en.outcome = "returned"
        /\ (en.exhausted /\ en.op = "enrichGermanWord") =>
              en.record = GetFallbackEnrichment(Spelling(en.word))
        /\ (en.exhausted /\ en.op = "analyzeWord") =>
              en.record = GetFallbackAnalysis(Spelling(en.word))
        /\ (en.exhausted /\ en.op = "enrichVocabulary") =>
              (en.record.success = FALSE /\ en.record.producer # "fallback")
        /\ (~en.exhausted /\ en.op \in LlmOps) => en.record.producer = "llm"

\* "Zeitung" with every model failing: the fallback record says die / noun
C9_Witness ==
    /\ en.pc = "done"
    /\ en.op = "enrichGermanWord"
    /\ en.word = 1
    /\ en.asked = <<"ollama", "openai">>
    /\ en.exhausted
    /\ en.record.producer = "fallback"
    /\ en.record.article = "die"
    /\ en.record.word_type = "noun"

-----------------------------------------------------------------------------
(* The scorer on two candidates that differ in the article only *)

ValidArticles == {"der", "die", "das"}
\* a missing article (null, '') and one that is none of der, die, das
InvalidArticles == {"null", "", "dem"}

\* the candidates scored: every field the score reads takes a value on each
\* side of each test of calculateResultScore
ScoredCandidates ==
    [word : {1}, source : {"pons", "linguatools", "api"}, confidence : {0, 5, 10},
     frequency : {0, 500, 2000}, article : ValidArticles,
     translation_en : {0, 1, 5}, example_sentence : {0, 20}, producer : {"provider"}]

\* selectBestResult([first, second]) and the two scores
ScoreAndSelect ==
    /\ sc.pc = "input"
    /\ sc' = [sc EXCEPT !.pc = "done",
                        !.validScore = CalculateResultScore(sc.valid),
                        !.invalidScore = CalculateResultScore(sc.invalid),
                        !.best = SelectBestResult(IF sc.validFirst THEN <<sc.valid, sc.invalid>>
                                                  ELSE <<sc.invalid, sc.valid>>)]
    /\ UNCHANGED <<now, quotaVars, cacheVars, batch, sw, vocabVars, sweep, imp>>

InitScore ==
    /\ now = 0
    /\ QuotaIdle
    /\ CacheIdle
    /\ batch = BatchIdle
    /\ sw = SwIdle
    /\ VocabIdle
    /\ sweep = NoSweep
    /\ imp = ImpIdle
    /\ \E c \in ScoredCandidates, bad \in InvalidArticles, vf \in BOOLEAN :
          sc = [pc |-> "input", valid |-> c, invalid |-> [c EXCEPT !.article = bad],
                validFirst |-> vf, validScore |-> 0, invalidScore |-> 0, best |-> c]

\* the candidate lists selectBestResult is given: every source, with and
\* without confidence; the pons candidate without confidence and the
\* candidate of another source with confidence 0.5 score alike
ListCandidates ==
    [word : {1}, source : {"pons", "linguatools", "api"}, confidence : {0, 5},
     frequency : {0}, article : {"der"}, translation_en : {5}, example_sentence : {20},
     producer : {"provider"}]

MaxList == 3

CandidateLists == UNION {[1..n -> ListCandidates] : n \in 1..MaxList}

\* selectBestResult(list)
SelectFromList ==
    /\ sc.pc = "list"
    /\ sc' = [sc EXCEPT !.pc = "selected", !.best = SelectBestResult(sc.list)]
    /\ UNCHANGED <<now, quotaVars, cacheVars, batch, sw, vocabVars, sweep, imp>>

InitSelect ==
    /\ now = 0
    /\ QuotaIdle
    /\ CacheIdle
    /\ batch = BatchIdle
    /\ sw = SwIdle
    /\ VocabIdle
    /\ sweep = NoSweep
    /\ imp = ImpIdle
    /\ \E l \in CandidateLists : sc = [pc |-> "list", list |-> l, best |-> l[1]]

NextSelect == SelectFromList

SpecSelect == InitSelect /\ [][NextSelect]_vars

\* C27: selectBestResult returns a candidate of the list whose score no
\* candidate of the list exceeds, and of those the one that comes first in the list.
C27_FirstOfTheBestScored ==
    sc.pc = "selected" =>
        \E i \in 1..Len(sc.list) :
            /\ sc.best = sc.list[i]
            /\ \A j \in 1..Len(sc.list) :
                  CalculateResultScore(sc.list[j]) <= CalculateResultScore(sc.list[i])
            /\ \A j \in 1..(i - 1) :
                  CalculateResultScore(sc.list[j]) < CalculateResultScore(sc.list[i])

\* three candidates, two of them with the greatest score, the lesser one
\* first: the second of the list is returned, not the third
C27_Witness ==
    /\ sc.pc = "selected"
    /\ Len(sc.list) = 3
    /\ sc.list[2] # sc.list[3]
    /\ CalculateResultScore(sc.list[2]) = CalculateResultScore(sc.list[3])
    /\ CalculateResultScore(sc.list[1]) < CalculateResultScore(sc.list[2])
    /\ sc.best = sc.list[2]

NextScore == ScoreAndSelect

\* C28: the score of a candidate is max(0, 0.4 * confidence
\* + 0.3 * min(frequency / 1000, 1) + bonus - penalties), in thousandths, with
\* bonus 0.2 for pons, 0.1 for linguatools, 0 otherwise, and penalties 0.3 for
\* an article not in {der, die, das}, 0.2 for a translation shorter than 2,
\* 0.1 for an example shorter than 10; it is never negative.
C28_ScoreFormula ==
    sc.pc = "done" =>
        LET Bonus(c) == IF c.source = "pons" THEN 200
                        ELSE IF c.source = "linguatools" THEN 100 ELSE 0
            Penalties(c) == (IF c.article \in ValidArticles THEN 0 ELSE 300)
                            + (IF c.translation_en >= 2 THEN 0 ELSE 200)
                            + (IF c.example_sentence >= 10 THEN 0 ELSE 100)
            Sum(c) == 40 * c.confidence + (3 * Min(c.frequency, 1000)) \div 10
                      + Bonus(c) - Penalties(c)
            Formula(c) == IF Sum(c) > 0 THEN Sum(c) ELSE 0
        IN  /\ sc.validScore = Formula(sc.valid)
            /\ sc.invalidScore = Formula(sc.invalid)
            /\ sc.validScore >= 0 /\ sc.invalidScore >= 0

\* a candidate with confidence, frequency, a source bonus and a short
\* translation, of positive score, and its twin without valid article, whose
\* penalties outweigh the rest and whose score is held at 0
C28_Witness ==
    /\ sc.pc = "done"
    /\ sc.valid.confidence > 0 /\ sc.valid.frequency > 0 /\ sc.valid.source = "linguatools"
    /\ sc.valid.translation_en < 2
    /\ sc.validScore > 0
    /\ RawScore(sc.invalid) < 0
    /\ sc.invalidScore = 0

SpecScore == InitScore /\ [][NextScore]_vars

\* C11 as stated: of two candidates that differ only in that one has an article
\* in {der, die, das} and the other has not, the one with the article scores
\* exactly 0.3 higher and selectBestResult returns it, in either input order.
C11_ValidArticleWinsByThreeTenths ==
    sc.pc = "done" =>
        /\ sc.validScore - sc.invalidScore = 300
        /\ sc.best = sc.valid

\* C13 as stated: a record of the rule-based fallback engine reaches the
\* caller, directly or through batch enrichment, with source = "fallback" and
\* a low confidence.
C13_FallbackMarkedAsFallback ==
    (en.pc \in {"done", "pushed"} /\ en.record.producer = "fallback") =>
        /\ "source" \in DOMAIN en.record
        /\ en.record.source = "fallback"
        /\ "confidence" \in DOMAIN en.record
        /\ en.record.confidence \in 0..3

-----------------------------------------------------------------------------
(* The sweep of the durable tier: cleanupExpiredCache *)

\* this.cacheExpiry = 24 * 60 * 60 * 1000: the TTL is one calendar day
DayLen == CacheExpiry

\* created_at as SQLite's CURRENT_TIMESTAMP writes it, 'YYYY-MM-DD HH:MM:SS':
\* the date, the character ' ' (code 32), the time of day
CurrentTimestamp(t) == <<t \div DayLen, 32, t % DayLen>>

\* Date.prototype.toISOString, 'YYYY-MM-DDTHH:MM:SS.sssZ':
\* the date, the character 'T' (code 84), the time of day
ToISOString(t) == <<t \div DayLen, 84, t % DayLen>>

\* the comparison of two TEXT values in SQLite: character by character
RECURSIVE TextLess(_, _)
TextLess(a, b) ==
    IF a = <<>> THEN b # <<>>
    ELSE IF b = <<>> THEN FALSE
    ELSE IF Head(a) # Head(b) THEN Head(a) < Head(b)
    ELSE TextLess(Tail(a), Tail(b))

\* the keys the sweep runs over
SweepKeys == {1, 2}

\* const expiredDate = new Date(Date.now() - this.cacheExpiry); db.run(DELETE ..., [expiredDate.toISOString()])
CleanupExpiredCache ==
    /\ sweep.pc \in {"idle", "done"}
    /\ sweep' = [NoSweep EXCEPT !.pc = "run", !.initialized = booted, !.at = now, !.cutoff = ToISOString(now - CacheExpiry)]
    /\ UNCHANGED <<now, quotaVars, cacheVars, batch, sc, imp, sw, vocabVars>>

\* DELETE FROM vocabulary_cache WHERE created_at < ?; resolve(this.changes)
CleanupDeleteDone ==
    /\ sweep.pc = "run"
    /\ LET gone == {k \in Keys : /\ dbCache[k] # NoRow
                                 /\ TextLess(CurrentTimestamp(dbCache[k].createdAt), sweep.cutoff)}
       IN  /\ dbCache' = [k \in Keys |-> IF k \in gone THEN NoRow ELSE dbCache[k]]
           /\ sweep' = [sweep EXCEPT !.pc = "done", !.before = dbCache, !.removed = gone,
                                     !.changes = Cardinality(gone)]
    /\ UNCHANGED <<now, memoryCache, pendingDel, booted, readers, lastRead, written, memLog,
                   quotaVars, batch, sc, imp, sw, vocabVars>>

InitSweep ==
    /\ now = 0
    /\ QuotaIdle
    /\ memoryCache = <<>>
    /\ dbCache \in PersistedRows(SweepKeys)
    /\ pendingDel = {}
    /\ booted = FALSE
    /\ readers = [r \in Readers |-> IdleReader]
    /\ lastRead = NoRead
    /\ written = WrittenOf(dbCache)
    /\ memLog = EmptyLog
    /\ batch = BatchIdle
    /\ sw = SwIdle
    /\ VocabIdle
    /\ ToolsIdle

NextSweep ==
    \/ LoadFrequentWordsToMemory
    \/ \E k \in SweepKeys : SaveToDbCache(k, "v2")
    \/ CleanupExpiredCache
    \/ CleanupDeleteDone
    \/ Tick

SpecSweep == InitSweep /\ [][NextSweep]_vars

\* C26 as stated: clearCache is initialize() followed by cleanupOldCache(),
\* which is cleanupExpiredCache(); when the sweep of an initialized cache
\* completes, the memory tier is empty.
C26_ClearCacheEmptiesMemory ==
    [][(sweep.pc = "run" /\ sweep.initialized /\ sweep'.pc = "done") => memoryCache' = <<>>]_vars

\* C16 as stated: the sweep removes exactly the durable rows whose age at the
\* call is above the TTL, leaves every younger row, and returns the number of
\* rows it removed.
C16_SweepRemovesExactlyExpired ==
    sweep.pc = "done" =>
        /\ sweep.removed = {k \in Keys : /\ sweep.before[k] # NoRow
                                          /\ sweep.at - sweep.before[k].createdAt > CacheExpiry}
        /\ sweep.changes = Cardinality(sweep.removed)

-----------------------------------------------------------------------------
(* The importer writing the vocabulary table: vocabularyImporter.js *)

\* the words of the imported files
ImportWords == {1}

\* the items importFromCSV and importFromJSON hand over: confidence: item.confidence || 1.0
ImportItems == {[ImportedRow(w) EXCEPT !.confidence = c] : w \in ImportWords, c \in {3, 10}}

\* the lists given to importToDatabase
ImportLists == {<<a>> : a \in ImportItems} \cup {<<a, b>> : a, b \in ImportItems}

\* x || 1.0
OrOne(x) == IF x = 0 THEN 10 ELSE x

ImportAcceptsAlways(item, existing) == TRUE

\* (item.confidence || 1.0) >= (existing.confidence || 1.0)
ImportAccepts(item, existing) == OrOne(item.confidence) >= OrOne(existing.confidence)

\* SELECT * FROM vocabulary WHERE word = ? LIMIT 1: the rows SQLite may give
GetExistingWord(st, w) == {row \in st : row.word = w}

\* UPDATE vocabulary SET article, translation_en, ..., source, confidence, frequency WHERE id = ?
UpdateVocabularyItem(st, existing, item) ==
    (st \ {existing}) \cup {[existing EXCEPT !.article = item.article,
                                              !.translation_en = item.translation_en,
                                              !.source = item.source,
                                              !.confidence = item.confidence,
                                              !.frequency = item.frequency,
                                              !.producer = "import"]}

\* INSERT INTO vocabulary (...): confidence: item.confidence || 1.0
InsertVocabularyItem(st, item) == st \cup {[item EXCEPT !.confidence = OrOne(@)]}

\* for (const item of vocabularyData): the next item's getExistingWord is issued, or return results
NextItem(i) ==
    IF i.queue = <<>> THEN [i EXCEPT !.pc = "done"]
    ELSE [i EXCEPT !.pc = "get", !.item = Head(i.queue), !.queue = Tail(i.queue), !.existing = NoItem]

\* importToDatabase(vocabularyData) up to its first await
ImportToDatabase(data) ==
    /\ imp.pc \in {"idle", "done"}
    /\ imp' = NextItem([ImpIdle EXCEPT !.queue = data])
    /\ UNCHANGED <<now, quotaVars, cacheVars, batch, sc, sweep, sw, vocabVars>>

\* the callback of getExistingWord with a row: the update is issued, or the item is passed over
ImpExistingFound ==
    /\ imp.pc = "get"
    /\ \E row \in GetExistingWord(store, imp.item.word) :
          imp' = IF ImportAccepts(imp.item, row)
                 THEN [imp EXCEPT !.pc = "update", !.existing = row]
                 ELSE NextItem([imp EXCEPT !.existing = row, !.last = "skipped"])
    /\ UNCHANGED <<now, quotaVars, cacheVars, batch, sc, sweep, sw, vocabVars>>

\* the callback of getExistingWord without a row: the insert is issued
ImpExistingNone ==
    /\ imp.pc = "get"
    /\ GetExistingWord(store, imp.item.word) = {}
    /\ imp' = [imp EXCEPT !.pc = "insert"]
    /\ UNCHANGED <<now, quotaVars, cacheVars, batch, sc, sweep, sw, vocabVars>>

\* the callback of updateVocabularyItem: results.updated++
ImpUpdateDone ==
    /\ imp.pc = "update"
    /\ store' = UpdateVocabularyItem(store, imp.existing, imp.item)
    /\ imp' = NextItem([imp EXCEPT !.updated = @ + 1, !.last = "updated"])
    /\ UNCHANGED <<now, quotaVars, cacheVars, batch, sc, sweep, sw, sv, en, mgr, quiz>>

\* the callback of insertVocabularyItem: results.imported++
ImpInsertDone ==
    /\ imp.pc = "insert"
    /\ store' = InsertVocabularyItem(store, imp.item)
    /\ imp' = NextItem([imp EXCEPT !.imported = @ + 1, !.last = "inserted"])
    /\ UNCHANGED <<now, quotaVars, cacheVars, batch, sc, sweep, sw, sv, en, mgr, quiz>>

\* a statement of the item fails: catch, results.errors.push, the next item
ImpItemError ==
    /\ imp.pc \in {"get", "update", "insert"}
    /\ imp' = NextItem([imp EXCEPT !.errors = @ + 1, !.last = "error"])
    /\ UNCHANGED <<now, quotaVars, cacheVars, batch, sc, sweep, sw, vocabVars>>

InitStore ==
    /\ now = 0
    /\ quotaManager = [a \in Apis |-> InitialQuota(0)]
    /\ apiKey \in [Apis -> BOOLEAN]
    /\ callers = [r \in Reqs |-> IdleCaller]
    /\ lastHas = NoObs
    /\ memoryCache = <<>>
    /\ dbCache \in CachedRows
    /\ pendingDel = {}
    /\ booted = FALSE
    /\ readers = [r \in Readers |-> IdleReader]
    /\ lastRead = NoRead
    /\ written = WrittenOf(dbCache)
    /\ memLog = EmptyLog
    /\ batch = BatchIdle
    /\ sw = SwIdle
    /\ VocabIdle
    /\ ToolsIdle

NextStore ==
    \/ LoadFrequentWordsToMemory
    \/ \E w \in ImportWords : SvStart(w)
    \/ SvStoreHit
    \/ SvStoreError
    \/ SvStoreMiss
    \/ SvCacheDbDone
    \/ SvCacheAccessDone
    \/ SvCacheError
    \/ SvSaveDone
    \/ SvSaveError
    \/ \E data \in ImportLists : ImportToDatabase(data)
    \/ ImpExistingFound
    \/ ImpExistingNone
    \/ ImpUpdateDone
    \/ ImpInsertDone
    \/ ImpItemError

SpecStore == InitStore /\ [][NextStore]_vars

\* the confidences a lookup of word w may give
LookupConfidence(st, w) == {row.confidence : row \in GetWordFromDatabase(st, w)}

\* C18: over resolutions and imports the row a store lookup gives for a word
\* is replaced only by one of greater or equal confidence: once the store has
\* a row for a word it keeps one, and the confidence of the row a lookup gives
\* never decreases.
C18_StoreConfidenceNeverDecreases ==
    [][\A w \in ImportWords :
        \A old \in LookupConfidence(store, w) :
            /\ LookupConfidence(store', w) # {}
            /\ \A new \in LookupConfidence(store', w) : new >= old
      ]_vars

\* one import both replaced a row by an item of greater confidence and passed
\* over an item of smaller confidence than the row it found
C18_Witness ==
    /\ imp.updated > 0
    /\ imp.last = "skipped"
    /\ imp.item.confidence < imp.existing.confidence
    /\ imp.existing \in store

-----------------------------------------------------------------------------
(* One resolution call: searchWithFallback, tryWithModels, callLLM *)

InitResolve ==
    /\ now = 0
    /\ quotaManager = [a \in Apis |-> InitialQuota(0)]
    /\ apiKey \in [Apis -> BOOLEAN]
    /\ callers = [r \in Reqs |-> IdleCaller]
    /\ lastHas = NoObs
    /\ CacheIdle
    /\ batch = BatchIdle
    /\ sw = SwIdle
    /\ store = {}
    /\ sv = SvIdle
    /\ \E keys \in EnvKeys, def \in EnvDefaults : en = EnFresh(keys, def)
    /\ mgr = MgrIdle
    /\ quiz = QuizIdle
    /\ ToolsIdle

NextResolve ==
    \/ SwStart
    \/ \E d \in RawReplies : PonsReply(d)
    \/ PonsFail
    \/ AfterPons
    \/ \E d \in RawReplies : LinguatoolsReply(d)
    \/ LinguatoolsFail
    \/ AfterLinguatools
    \/ \E op \in LlmOps : EnStartLlm(op, 1)
    \/ \E kind \in ReplyKinds : LlmReply(kind)
    \/ Tick

SpecResolve == InitResolve /\ [][NextResolve]_vars

\* C22: within one call of searchWithFallback, tryWithModels or callLLM no
\* provider is attempted twice and no request is sent twice to a provider,
\* whatever the default provider is.
C22_EachProviderAtMostOnce ==
    /\ Distinct(sw.tried) /\ Distinct(sw.called)
    /\ Distinct(en.tried) /\ Distinct(en.asked)

\* callLLM with the default provider groq went through its whole list after
\* failures, and searchWithFallback went on to Linguatools after PONS failed
C22_Witness ==
    /\ en.pc = "done" /\ en.op = "analyzeWord" /\ en.def = "groq" /\ en.exhausted
    /\ en.tried = <<"groq", "ollama", "openai", "anthropic">>
    /\ Len(en.asked) >= 2
    /\ sw.pc = "done" /\ sw.called = <<"pons", "linguatools">>
    /\ sw.got["pons"] = <<>>

\* the list the running operation goes through
ProviderList(e) == IF e.op = "enrichGermanWord" THEN EnrichmentModels ELSE AnalyzerProviders(e.def)

\* C23: a provider whose key is not set is never sent a request and its quota
\* counter stays as it was at construction, in every call of the run; the call
\* goes on to the next provider: searchWithFallback reaches Linguatools when
\* PONS has no key, and tryWithModels and callLLM go through their list in
\* order, leaving out none.
C23_NoCredentialNoRequest ==
    /\ \A a \in Apis : ~apiKey[a] => (~Has(sw.called, a) /\ quotaManager[a].used = 0)
    /\ \A i \in 1..Len(en.asked) : en.asked[i] = "ollama" \/ en.asked[i] \in en.keys
    /\ (sw.pc = "done" /\ ~apiKey["pons"] /\ sw.hadQuota["linguatools"]) => Has(sw.tried, "linguatools")
    /\ en.op \in LlmOps => en.tried = SubSeq(ProviderList(en), 1, Len(en.tried))
    /\ \A i \in 1..Len(en.tried) :
          (en.tried[i] = "ollama" \/ en.tried[i] \in en.keys) => Has(en.asked, en.tried[i])

\* PONS without key was passed over and Linguatools was asked and counted; callLLM
\* passed over groq, which has no key, and asked ollama and openai
C23_Witness ==
    /\ sw.pc = "done" /\ ~apiKey["pons"] /\ apiKey["linguatools"]
    /\ sw.tried = <<"pons", "linguatools">> /\ sw.called = <<"linguatools">>
    /\ quotaManager["linguatools"].used > 0
    /\ now >= MonthLen
    /\ en.pc = "done" /\ en.op = "analyzeWord" /\ en.def = "groq" /\ en.keys = {"openai"}
    /\ en.asked = <<"ollama", "openai">>

-----------------------------------------------------------------------------
(* A provider that never replies: the timeouts of the requests *)

\* the axios.post calls that pass { timeout: 30000 }: callOllama only
HasTimeout(p) == p = "ollama"

\* the timeout of the pending request runs out: axios rejects
LlmTimeout ==
    /\ en.pc = "llm"
    /\ HasTimeout(en.cur)
    /\ en' = NextCall([en EXCEPT !.timedOut = TRUE])
    /\ UNCHANGED <<now, quotaVars, cacheVars, batch, toolVars, sw, store, sv, mgr, quiz>>

NextTimeout ==
    \/ SwStart
    \/ \E d \in RawReplies : PonsReply(d)
    \/ PonsFail
    \/ AfterPons
    \/ \E d \in RawReplies : LinguatoolsReply(d)
    \/ LinguatoolsFail
    \/ AfterLinguatools
    \/ \E op \in LlmOps : EnStartLlm(op, 1)
    \/ \E kind \in ReplyKinds : LlmReply(kind)
    \/ LlmTimeout

\* the requests of PONS and Linguatools carry timeout: 10000, so a pending one
\* fails at last; a pending request of a generative provider fails at last
\* where it carries a timeout; continuations run; no provider has to reply
SpecTimeout ==
    /\ InitResolve
    /\ [][NextTimeout]_vars
    /\ WF_vars(PonsFail) /\ WF_vars(LinguatoolsFail)
    /\ WF_vars(AfterPons) /\ WF_vars(AfterLinguatools)
    /\ WF_vars(LlmTimeout)

\* C25 as stated: every request is bounded by a timeout, so a call of
\* searchWithFallback, tryWithModels or callLLM that waits for a provider
\* returns at last, even when no provider ever replies.
C25_EveryCallReturns ==
    /\ (sw.pc \in {"awaitPons", "awaitLingua"}) ~> (sw.pc = "done")
    /\ (en.pc = "llm") ~> (en.pc = "done")
-----------------------------------------------------------------------------
(* Header normalization of the PONS adapter: dictionaries.js 178-260.  A text *)
(* is a sequence of characters.                                              *)

LowerCaseLetters == <<"a", "b", "c", "d", "e", "f", "g", "h", "i", "j", "k", "l", "m", "n", "o", "p", "q", "r", "s", "t", "u", "v", "w", "x", "y", "z", "ä", "ö", "ü">>
UpperCaseLetters == <<"A", "B", "C", "D", "E", "F", "G", "H", "I", "J", "K", "L", "M", "N", "O", "P", "Q", "R", "S", "T", "U", "V", "W", "X", "Y", "Z", "Ä", "Ö", "Ü">>
Digits == {"0", "1", "2", "3", "4", "5", "6", "7", "8", "9"}

\* \w of a regular expression without the u flag: [A-Za-z0-9_]
WordChars ==
    {LowerCaseLetters[i] : i \in 1..26} \cup {UpperCaseLetters[i] : i \in 1..26} \cup Digits \cup {"_"}
\* the letters of German words
Letters ==
    {LowerCaseLetters[i] : i \in 1..Len(LowerCaseLetters)} \cup
    {UpperCaseLetters[i] : i \in 1..Len(UpperCaseLetters)} \cup {"ß"}
\* \s
IsSpace(c) == c = " "

\* String.prototype.toLowerCase
LowerOf(c) ==
    IF \E i \in 1..Len(UpperCaseLetters) : UpperCaseLetters[i] = c
    THEN LowerCaseLetters[CHOOSE i \in 1..Len(UpperCaseLetters) : UpperCaseLetters[i] = c]
    ELSE c
ToLowerCase(text) == [i \in 1..Len(text) |-> LowerOf(text[i])]

\* String.prototype.includes
Includes(text, part) ==
    \E i \in 1..(Len(text) - Len(part) + 1) : SubSeq(text, i, i + Len(part) - 1) = part

\* the positions of character c in text after position i
After(text, i, c) == {j \in (i + 1)..Len(text) : text[j] = c}
SetMin(S) == CHOOSE x \in S : \A y \in S : x <= y

\* .replace(/<[^>]*>/g, '')
RECURSIVE StripTags(_)
StripTags(text) ==
    LET opens == {i \in 1..Len(text) : text[i] = "<" /\ After(text, i, ">") # {}}
    IN  IF opens = {} THEN text
        ELSE LET i == SetMin(opens)
                 j == SetMin(After(text, i, ">"))
             IN  SubSeq(text, 1, i - 1) \o StripTags(SubSeq(text, j + 1, Len(text)))

\* .replace(/\s+/g, ' ')
RECURSIVE CollapseSpaces(_)
CollapseSpaces(text) ==
    IF Len(text) < 2 THEN text
    ELSE IF IsSpace(text[1]) /\ IsSpace(text[2]) THEN CollapseSpaces(Tail(text))
    ELSE <<text[1]>> \o CollapseSpaces(Tail(text))

\* .trim()
RECURSIVE Trim(_)
Trim(text) ==
    IF text = <<>> THEN text
    ELSE IF IsSpace(text[1]) THEN Trim(Tail(text))
    ELSE IF IsSpace(text[Len(text)]) THEN Trim(SubSeq(text, 1, Len(text) - 1))
    ELSE text

\* cleanText(text)
CleanText(text) == Trim(CollapseSpaces(StripTags(text)))

\* .split(/\s+/)
RECURSIVE SplitSpaces(_)
SplitSpaces(text) ==
    LET sp == {i \in 1..Len(text) : IsSpace(text[i])}
    IN  IF sp = {} THEN <<text>>
        ELSE LET i == SetMin(sp)
                 rest == SubSeq(text, i + 1, Len(text))
                 skip == IF rest # <<>> /\ IsSpace(rest[1]) THEN CollapseSpaces(rest) ELSE rest
             IN  <<SubSeq(text, 1, i - 1)>> \o
                 SplitSpaces(IF skip # <<>> /\ IsSpace(skip[1]) THEN Tail(skip) ELSE skip)

ArticleWords == {<<"d", "e", "r">>, <<"d", "i", "e">>, <<"d", "a", "s">>}
\* the article printed as the records of the model hold it
ArticleName(w) ==
    IF w = <<"d", "e", "r">> THEN "der" ELSE IF w = <<"d", "i", "e">> THEN "die" ELSE "das"

\* der|die|das, whatever the case, stands at position i of text between two
\* characters that are not of the set inWord, or the ends of the text
ArticleAt(text, i, inWord) ==
    /\ i + 2 <= Len(text)
    /\ ToLowerCase(SubSeq(text, i, i + 2)) \in ArticleWords
    /\ i = 1 \/ text[i - 1] \notin inWord
    /\ i + 2 = Len(text) \/ text[i + 3] \notin inWord

\* the first such article of text, "null" when there is none
FirstArticle(text, inWord) ==
    LET at == {i \in 1..Len(text) : ArticleAt(text, i, inWord)}
    IN  IF at = {} THEN "null"
        ELSE ArticleName(ToLowerCase(SubSeq(text, SetMin(at), SetMin(at) + 2)))

\* extractArticle(text): text.match(/\b(der|die|das)\b/i)
ExtractArticle(text) == FirstArticle(text, WordChars)

\* extractWord(text, searchWord)
ExtractWord(text, searchWord) ==
    LET words == SplitSpaces(CleanText(text))
        fits == {i \in 1..Len(words) :
                    /\ Includes(ToLowerCase(words[i]), ToLowerCase(searchWord))
                    /\ ToLowerCase(words[i]) \notin ArticleWords}
    IN  IF fits = {} THEN searchWord ELSE words[SetMin(fits)]

\* text.match(/\[([^\]]+)\]/) and text.match(/\{([^}]+)\}/): the content of
\* the first pair open ... close that holds at least one character
FirstEnclosed(text, open, close) ==
    LET at == {i \in 1..Len(text) :
                 /\ text[i] = open
                 /\ After(text, i, close) # {}
                 /\ SetMin(After(text, i, close)) > i + 1}
    IN  IF at = {} THEN <<>>
        ELSE SubSeq(text, SetMin(at) + 1, SetMin(After(text, SetMin(at), close)) - 1)

\* extractPronunciation / extractGrammar
ExtractPronunciation(text) == FirstEnclosed(text, "[", "]")
ExtractGrammar(text) == FirstEnclosed(text, "{", "}")

\* article || 'das'
OrDasNever(article) == article

OrDas(article) == IF article = "null" THEN "das" ELSE article

\* extractPONSWordData(arab, searchWord), whose example comes from
\* arab.examples and not from the header
ExtractPONSWordData(header, searchWord) ==
    LET cleanHeader == CleanText(header)
    IN  [word |-> ExtractWord(cleanHeader, searchWord),
         article |-> OrDas(ExtractArticle(cleanHeader)),
         pronunciation |-> ExtractPronunciation(cleanHeader),
         grammar |-> ExtractGrammar(cleanHeader)]

\* the record parsePONSResponse pushes for one arab with one translation
NormalizeArab(header, searchWord, target) ==
    LET wordData == ExtractPONSWordData(header, searchWord)
    IN  [word |-> wordData.word, article |-> wordData.article,
         translation_en |-> CleanText(target), pronunciation |-> wordData.pronunciation]

\* the pieces headers are made of
HeaderPieces ==
    {<<"d", "e", "r">>,
     <<"D", "i", "e">>,
     <<"S", "a", "f", "t">>,
     <<"[", "z", "a", "f", "t", "]">>,
     <<"m", "ü", "d", "e", "r">>,
     <<"<", "b", ">">>,
     <<" ">>,
     <<"{", "m", "}">>}
\* the most pieces in one header
MaxPieces == 3
RECURSIVE JoinPieces(_)
JoinPieces(ps) ==
    IF Len(ps) = 1 THEN ps[1] ELSE ps[1] \o <<" ">> \o JoinPieces(Tail(ps))
Headers == UNION {{JoinPieces(ps) : ps \in [1..n -> HeaderPieces]} : n \in 1..MaxPieces}

Saft == <<"S", "a", "f", "t">>
Juice == <<"j", "u", "i", "c", "e">>

\* parsePONSResponse reaches one arab of the reply
NormalizeHeader ==
    /\ sc.pc = "header"
    /\ sc' = [sc EXCEPT !.pc = "normalized",
                        !.record = NormalizeArab(sc.header, sc.searchWord, sc.target)]
    /\ UNCHANGED <<now, quotaVars, cacheVars, batch, sw, vocabVars, sweep, imp>>

InitHeader ==
    /\ now = 0
    /\ QuotaIdle
    /\ CacheIdle
    /\ batch = BatchIdle
    /\ sw = SwIdle
    /\ VocabIdle
    /\ sweep = NoSweep
    /\ imp = ImpIdle
    /\ \E h \in Headers :
          sc = [pc |-> "header", header |-> h, searchWord |-> Saft, target |-> Juice,
                record |-> [word |-> <<>>, article |-> "null", translation_en |-> <<>>,
                            pronunciation |-> <<>>]]

NextHeader == NormalizeHeader

SpecHeader == InitHeader /\ [][NextHeader]_vars

DerSaftZaft == <<"d", "e", "r", " ", "S", "a", "f", "t", " ", "[", "z", "a", "f", "t", "]">>

\* C32 as stated: the article of the normalized record is the first
\* der|die|das standing as a whole word in the header, whatever its case, and
\* none when the header holds no such word; the pronunciation is the content
\* of the first [...] pair; "der Saft [zaft]" with translation "juice" gives
\* word "Saft", article "der", translation "juice", pronunciation "zaft".
C32_ArticleAndPronunciationOfHeader ==
    sc.pc = "normalized" =>
        /\ sc.record.article = FirstArticle(CleanText(sc.header), Letters)
        /\ sc.record.pronunciation = FirstEnclosed(CleanText(sc.header), "[", "]")
        /\ sc.header = DerSaftZaft =>
              sc.record = [word |-> Saft, article |-> "der", translation_en |-> Juice,
                           pronunciation |-> <<"z", "a", "f", "t">>]

-----------------------------------------------------------------------------
(* The rule-based guesses of the two services, applied to words *)

\* aiEnrichment.guessArticle: the capitalized test around the suffix rules
GuessArticleEnrichment(word) ==
    IF Capitalized(word)
    THEN IF EndsWith(word, <<"u","n","g">>) \/ EndsWith(word, <<"h","e","i","t">>)
            \/ EndsWith(word, <<"k","e","i","t">>) THEN "die"
         ELSE IF EndsWith(word, <<"c","h","e","n">>) \/ EndsWith(word, <<"l","e","i","n">>)
         THEN "das"
         ELSE "der"
    ELSE "null"

\* aiEnrichment.generateSimpleExample(word)
GenerateSimpleExampleEnrichment(word) ==
    IF Capitalized(word) THEN <<"Das ist", GuessArticleEnrichment(word), word, ".">>
    ELSE <<"Ich", word, ".">>

\* the words guessed: an initial (capital, small, digit, none), a stem, an ending
WordInitials == {<<"Z">>, <<"z">>, <<"1">>, <<>>}
WordStems == {<<"e","i","t">>, <<>>}
WordEndings ==
    {<<"u","n","g">>, <<"h","e","i","t">>, <<"k","e","i","t">>, <<"c","h","e","n">>,
     <<"l","e","i","n">>, <<"e","n">>, <<"i","e","r","e","n">>, <<"i","g">>,
     <<"l","i","c","h">>, <<"i","s","c","h">>, <<"U","N","G">>, <<"e","r">>, <<>>}
GuessedWords == {i \o s \o e : i \in WordInitials, s \in WordStems, e \in WordEndings}

\* getFallbackAnalysis and getFallbackEnrichment make their guesses on a word
GuessWord ==
    /\ sc.pc = "word"
    /\ sc' = [sc EXCEPT !.pc = "guessed",
                        !.article = GuessArticle(sc.word),
                        !.articleEnrichment = GuessArticleEnrichment(sc.word),
                        !.example = GenerateSimpleExample(sc.word, GuessArticle(sc.word)),
                        !.exampleEnrichment = GenerateSimpleExampleEnrichment(sc.word),
                        !.wordType = GuessWordType(sc.word),
                        !.wordTypeEnrichment = GuessWordTypeEnrichment(sc.word)]
    /\ UNCHANGED <<now, quotaVars, cacheVars, batch, sw, vocabVars, sweep, imp>>

InitGuess ==
    /\ now = 0
    /\ QuotaIdle
    /\ CacheIdle
    /\ batch = BatchIdle
    /\ sw = SwIdle
    /\ VocabIdle
    /\ sweep = NoSweep
    /\ imp = ImpIdle
    /\ \E w \in GuessedWords :
          sc = [pc |-> "word", word |-> w, article |-> "null", articleEnrichment |-> "null",
                example |-> <<>>, exampleEnrichment |-> <<>>,
                wordType |-> "unknown", wordTypeEnrichment |-> "unknown"]

NextGuess == GuessWord

SpecGuess == InitGuess /\ [][NextGuess]_vars

\* the word starts with a small letter
LowercaseInitial(word) == word # <<>> /\ \E j \in 1..Len(Lower) : Lower[j] = word[1]

HasEnding(word, endings) == \E e \in endings : EndsWith(word, e)

\* the article the rule gives a word
RuleArticle(word) ==
    IF LowercaseInitial(word) THEN "null"
    ELSE IF HasEnding(word, {<<"u","n","g">>, <<"h","e","i","t">>, <<"k","e","i","t">>}) THEN "die"
    ELSE IF HasEnding(word, {<<"c","h","e","n">>, <<"l","e","i","n">>}) THEN "das"
    ELSE "der"

\* C33: in both services guessArticle gives none to a word with a lowercase
\* initial, else die to one ending in ung, heit or keit, else das to one
\* ending in chen or lein, else der; the example is "Das ist <article>
\* <word>." exactly for the words that get an article, "Ich <word>." for the
\* others.
C33_ArticleAndExampleByRule ==
    sc.pc = "guessed" =>
        /\ sc.article = RuleArticle(sc.word)
        /\ sc.articleEnrichment = RuleArticle(sc.word)
        /\ \A ex \in {sc.example, sc.exampleEnrichment} :
              IF RuleArticle(sc.word) # "null"
              THEN ex = <<"Das ist", RuleArticle(sc.word), sc.word, ".">>
              ELSE ex = <<"Ich", sc.word, ".">>

\* a capitalized diminutive gets das and the noun example, in both services
C33_Witness ==
    /\ sc.pc = "guessed"
    /\ sc.word = <<"Z", "e", "i", "t", "c", "h", "e", "n">>
    /\ sc.article = "das" /\ sc.articleEnrichment = "das"
    /\ sc.example = <<"Das ist", "das", sc.word, ".">>
    /\ sc.exampleEnrichment = sc.example

\* the word type the rule gives a word
RuleWordType(word) ==
    IF Capitalized(word) THEN "noun"
    ELSE IF HasEnding(word, {<<"e","n">>, <<"i","e","r","e","n">>}) THEN "verb"
    ELSE IF HasEnding(word, {<<"i","g">>, <<"l","i","c","h">>, <<"i","s","c","h">>}) THEN "adjective"
    ELSE "unknown"

\* C34 as stated: both guessWordType implementations give every word the type
\* of the rule (capitalized: noun; else ending en or ieren: verb; else ending
\* ig, lich or isch: adjective; else unknown), hence the same type.
C34_SameWordTypeInBothServices ==
    sc.pc = "guessed" =>
        /\ sc.wordType = RuleWordType(sc.word)
        /\ sc.wordTypeEnrichment = RuleWordType(sc.word)
        /\ sc.wordType = sc.wordTypeEnrichment

-----------------------------------------------------------------------------
(* VocabularyManager.initialize called by several handlers: part_004 12-21 *)

\* initialize() up to its first await: the isInitialized test, then
\* db.connect() is issued
InitializeStart(c) ==
    /\ mgr.pc[c] = "idle"
    /\ mgr' = IF mgr.isInitialized
              THEN [mgr EXCEPT !.pc[c] = "returned"]
              ELSE [mgr EXCEPT !.pc[c] = "connect", !.connects = @ + 1]
    /\ UNCHANGED <<now, quotaVars, cacheVars, batch, toolVars, sw, store, sv, en, quiz>>

\* db.connect() resolved: cache.initialize() is issued
ConnectDone(c) ==
    /\ mgr.pc[c] = "connect"
    /\ mgr' = [mgr EXCEPT !.pc[c] = "cacheInit"]
    /\ UNCHANGED <<now, quotaVars, cacheVars, batch, toolVars, sw, store, sv, en, quiz>>

\* cache.initialize() resolved, its loadFrequentWordsToMemory having filled
\* the memory tier: updateDatabaseSchema() is issued
CacheInitializeDone(c) ==
    /\ mgr.pc[c] = "cacheInit"
    /\ mgr' = [mgr EXCEPT !.pc[c] = "schema", !.preloads = @ + 1]
    /\ booted' = TRUE
    /\ \E o \in PreloadOrders(dbCache) :
          /\ memoryCache' = AddAll(memoryCache, dbCache, o, now)
          /\ memLog' = LogAll(memLog, memoryCache, dbCache, o, now)
    /\ UNCHANGED <<now, quotaVars, dbCache, pendingDel, readers, lastRead, written,
                   batch, toolVars, sw, store, sv, en, quiz>>

\* updateDatabaseSchema() resolved: isInitialized = true, initialize returns
SchemaDone(c) ==
    /\ mgr.pc[c] = "schema"
    /\ mgr' = [mgr EXCEPT !.pc[c] = "returned", !.isInitialized = TRUE, !.schemas = @ + 1]
    /\ UNCHANGED <<now, quotaVars, cacheVars, batch, toolVars, sw, store, sv, en, quiz>>

InitInitialize ==
    /\ now = 0
    /\ QuotaIdle
    /\ memoryCache = <<>>
    /\ dbCache \in CachedRows
    /\ pendingDel = {}
    /\ booted = FALSE
    /\ readers = [r \in Readers |-> IdleReader]
    /\ lastRead = NoRead
    /\ written = WrittenOf(dbCache)
    /\ memLog = EmptyLog
    /\ batch = BatchIdle
    /\ sw = SwIdle
    /\ VocabIdle
    /\ ToolsIdle

NextInitialize ==
    \/ \E c \in InitCallers : InitializeStart(c)
    \/ \E c \in InitCallers : ConnectDone(c)
    \/ \E c \in InitCallers : CacheInitializeDone(c)
    \/ \E c \in InitCallers : SchemaDone(c)

SpecInitialize == InitInitialize /\ [][NextInitialize]_vars

\* C38 as stated: the setup of initialize (database connect, cache initialize
\* with the preload, schema update) is carried out at most once, also when
\* several callers invoke initialize before the first invocation has
\* completed; an invocation that has returned found the setup finished.
C38_SetupAtMostOnce ==
    /\ mgr.connects <= 1
    /\ mgr.preloads <= 1
    /\ mgr.schemas <= 1
    /\ \A c \in InitCallers : mgr.pc[c] = "returned" => mgr.isInitialized

-----------------------------------------------------------------------------
(* VocabularyManager.getQuizVocabulary: part_004 187-243, vocabularyCache.js 197-230 *)

\* the levels guessLevel and the categories guessCategory give
QuizLevels == {"A1", "B1"}
QuizCategories == {"food_drink", "general"}

\* the largest count a quiz asks for
MaxQuizCount == 2

\* the keys of the vocabulary_cache rows a quiz can draw, and a word only the
\* vocabulary table holds
QuizKeys == {1, 2}
QuizStoreWord == Cardinality(QuizKeys) + 1

\* a record as parsePONSResponse pushes it, with the level and the category it guessed
QuizRecord(w, lvl, cat) ==
    [word |-> w, source |-> "pons", confidence |-> 0, frequency |-> 0, article |-> "die",
     translation_en |-> 5, example_sentence |-> 20, producer |-> "provider",
     level |-> lvl, category |-> cat]

\* the array the cached parsed_data stand for: every record carries the
\* guessLevel and guessCategory of its own word and translation
ClassifiedResultsOf(d, w) ==
    IF d = "v1"
    THEN <<QuizRecord(w, "A1", "food_drink")>>
    ELSE <<QuizRecord(w, "A1", "general"), QuizRecord(w, "B1", "food_drink")>>

\* JSON.parse(row.parsed_data) of the row of key k
ParsedRow(db, k) == ClassifiedResultsOf(JsonParse(db[k].parsed_data), k)

\* ORDER BY RANDOM() LIMIT n over rows: any n of them in any order, or all of them
RandomLimit(rows, n) ==
    LET m == Min(n, Cardinality(rows))
    IN  {o \in [1..m -> rows] : \A i, j \in 1..m : o[i] = o[j] => i = j}

\* SELECT * FROM vocabulary [WHERE level = ? [AND category = ?]]
VocabularyMatching(st, level, category) ==
    {row \in st : /\ level # NoFilter => row.level = level
                  /\ category # NoFilter => row.category = category}

\* SELECT parsed_data FROM vocabulary_cache WHERE language_pair = 'de-en'
\* [AND json_extract(parsed_data, '$[0].level') = ?]
CacheMatching(db, level) ==
    {k \in Keys : /\ db[k] # NoRow
                  /\ level # NoFilter => ParsedRow(db, k)[1].level = level}

\* rows.forEach(row => words.push(...parsed))
RECURSIVE PushParsed(_, _)
PushParsed(db, o) ==
    IF o = <<>> THEN <<>> ELSE ParsedRow(db, Head(o)) \o PushParsed(db, Tail(o))

\* list.slice(0, count)
SliceTo(list, count) == SubSeq(list, 1, Min(count, Len(list)))

QuizReturn(q, list) == [q EXCEPT !.pc = "done", !.outcome = "returned", !.returned = list]

\* getQuizVocabulary(count, level, category) up to its first await:
\* getVocabularyFromDatabase is issued
GetQuizVocabulary(count, level, category) ==
    /\ quiz.pc \in {"idle", "done"}
    /\ quiz' = [QuizIdle EXCEPT !.pc = "db", !.count = count, !.level = level,
                                !.category = category]
    /\ UNCHANGED <<now, quotaVars, cacheVars, batch, toolVars, sw, store, sv, en, mgr>>

\* the callback of getVocabularyFromDatabase with rows: enough of them are
\* returned; else getRandomCachedWords(count - dbWords.length, level) is issued
\* when hasApiKeys(), and dbWords is returned when not
QuizDbRows ==
    /\ quiz.pc = "db"
    /\ \E rows \in RandomLimit(VocabularyMatching(store, quiz.level, quiz.category), quiz.count) :
          quiz' = IF Len(rows) >= quiz.count
                  THEN QuizReturn([quiz EXCEPT !.dbWords = rows], SliceTo(rows, quiz.count))
                  ELSE IF HasApiKeys
                  THEN [quiz EXCEPT !.pc = "cache", !.dbWords = rows]
                  ELSE QuizReturn([quiz EXCEPT !.dbWords = rows], SliceTo(rows, quiz.count))
    /\ UNCHANGED <<now, quotaVars, cacheVars, batch, toolVars, sw, store, sv, en, mgr>>

\* the callback of getVocabularyFromDatabase with an error: getQuizVocabulary rejects
QuizDbError ==
    /\ quiz.pc = "db"
    /\ quiz' = [quiz EXCEPT !.pc = "done", !.outcome = "raised"]
    /\ UNCHANGED <<now, quotaVars, cacheVars, batch, toolVars, sw, store, sv, en, mgr>>

\* the callback of getRandomCachedWords with rows: the first saveWordToDatabase
\* is issued, or [...dbWords, ...cachedWords].slice(0, count) is returned
QuizCacheRows ==
    /\ quiz.pc = "cache"
    /\ \E o \in RandomLimit(CacheMatching(dbCache, quiz.level), quiz.count - Len(quiz.dbWords)) :
          LET words == PushParsed(dbCache, o)
          IN  quiz' = IF words = <<>>
                      THEN QuizReturn(quiz, SliceTo(quiz.dbWords, quiz.count))
                      ELSE [quiz EXCEPT !.pc = "save", !.cachedWords = words, !.queue = words]
    /\ UNCHANGED <<now, quotaVars, cacheVars, batch, toolVars, sw, store, sv, en, mgr>>

\* the callback of getRandomCachedWords with an error: caught, return dbWords.slice(0, count)
QuizCacheError ==
    /\ quiz.pc = "cache"
    /\ quiz' = QuizReturn(quiz, SliceTo(quiz.dbWords, quiz.count))
    /\ UNCHANGED <<now, quotaVars, cacheVars, batch, toolVars, sw, store, sv, en, mgr>>

\* the callback of saveWordToDatabase(word): the next word's save is issued, or
\* [...dbWords, ...cachedWords].slice(0, count) is returned
QuizSaveDone ==
    /\ quiz.pc = "save"
    /\ store' = SaveWordToDatabase(store, Head(quiz.queue))
    /\ quiz' = IF Tail(quiz.queue) = <<>>
               THEN QuizReturn([quiz EXCEPT !.queue = <<>>],
                               SliceTo(quiz.dbWords \o quiz.cachedWords, quiz.count))
               ELSE [quiz EXCEPT !.queue = Tail(@)]
    /\ UNCHANGED <<now, quotaVars, cacheVars, batch, toolVars, sw, sv, en, mgr>>

\* the callback of saveWordToDatabase with an error: caught, return dbWords.slice(0, count)
QuizSaveError ==
    /\ quiz.pc = "save"
    /\ quiz' = QuizReturn(quiz, SliceTo(quiz.dbWords, quiz.count))
    /\ UNCHANGED <<now, quotaVars, cacheVars, batch, toolVars, sw, store, sv, en, mgr>>

\* the rows of vocabulary and vocabulary_cache a former run left
QuizStoredRows ==
    SUBSET {QuizRecord(QuizStoreWord, "A1", "food_drink"), QuizRecord(QuizStoreWord, "B1", "general")}

QuizCachedRows ==
    {db \in [Keys -> {NoRow, NewRow("v1", 0), NewRow("v2", 0)}] :
        \A k \in Keys \ QuizKeys : db[k] = NoRow}

InitQuiz ==
    /\ now = 0
    /\ quotaManager = [a \in Apis |-> InitialQuota(0)]
    /\ apiKey \in [Apis -> BOOLEAN]
    /\ callers = [r \in Reqs |-> IdleCaller]
    /\ lastHas = NoObs
    /\ memoryCache = <<>>
    /\ dbCache \in QuizCachedRows
    /\ pendingDel = {}
    /\ booted = TRUE
    /\ readers = [r \in Readers |-> IdleReader]
    /\ lastRead = NoRead
    /\ written = WrittenOf(dbCache)
    /\ memLog = EmptyLog
    /\ batch = BatchIdle
    /\ sw = SwIdle
    /\ store \in QuizStoredRows
    /\ sv = SvIdle
    /\ en = EnIdle
    /\ mgr = MgrIdle
    /\ quiz = QuizIdle
    /\ ToolsIdle

NextQuiz ==
    \/ \E count \in 1..MaxQuizCount, level \in {NoFilter} \cup QuizLevels,
          category \in {NoFilter} \cup QuizCategories :
          GetQuizVocabulary(count, level, category)
    \/ QuizDbRows
    \/ QuizDbError
    \/ QuizCacheRows
    \/ QuizCacheError
    \/ QuizSaveDone
    \/ QuizSaveError

SpecQuiz == InitQuiz /\ [][NextQuiz]_vars

\* C39 as stated: getQuizVocabulary(count, level, category) returns at most
\* count records; when a level and/or a category filter is given every
\* returned record has that level and that category, whether it came from the
\* vocabulary table or from the cache; and the records taken from the cache
\* are in the vocabulary table by the time they are returned.
C39_QuizRecordsMatchFilters ==
    (quiz.pc = "done" /\ quiz.outcome = "returned") =>
        /\ Len(quiz.returned) <= quiz.count
        /\ \A i \in 1..Len(quiz.returned) :
              /\ quiz.level # NoFilter => quiz.returned[i].level = quiz.level
              /\ quiz.category # NoFilter => quiz.returned[i].category = quiz.category
        /\ \A i \in (Len(quiz.dbWords) + 1)..Len(quiz.returned) :
              \E row \in store : /\ row.word = quiz.returned[i].word
                                 /\ row.level = quiz.returned[i].level
                                 /\ row.category = quiz.returned[i].category

=============================================================================
